---- MODULE Spec2Model ----
(***************************************************************************)
(* The oneamp playback engine: the caller's command channel, the control   *)
(* loop of audio_thread_main_symphonia, the SymphoniaPlayer decoder, the   *)
(* CpalOutput sink with its hardware callback, and the event channel.      *)
(*                                                                         *)
(* Units.  A file is a sequence of TrackLen packets of one frame each;     *)
(* positions are counted in frames, so current_position and the seek       *)
(* target are frame counts (seconds times the sample rate).                *)
(***************************************************************************)
EXTENDS Integers, Sequences, FiniteSets, TLC

\* ------------------------------------------------------------------ bounds
MaxCmds == 3      \* commands the caller sends in one run
TrackLen == 2     \* packets in the valid test file
MaxTicks == 3     \* loop iterations that run the decode/report half while playing
MaxRequest == 2   \* samples the hardware callback asks for in one invocation
MaxSessionCmds == 2  \* commands the caller sends before it shuts down or drops the engine
MaxRate == 9      \* largest sample rate of an output exercised on its own
MaxChannels == 2  \* most channels of an output exercised on its own
MaxBuffered == 3  \* most samples its queues hold when it is first called
MaxCalls == 3     \* calls made to an equalizer exercised on its own
MaxEqCmds == 2    \* equalizer commands the equalizer caller sends
MaxDecodeCmds == 2 \* commands the decoding caller sends
MaxCapture == 2   \* largest size of a capture buffer exercised on its own
MaxInput == 3     \* most samples given to one update of it
MaxClockCmds == 2 \* commands the caller watching the position sends
MaxSkipCmds == 3  \* commands the caller stepping through its playlist sends
MaxIntervals == 2 \* position update intervals of loop time before the last iteration watched
MaxPairs == 1     \* pairs among them that it is given to process

\* ------------------------------------------------------------------ values
None == [tag |-> "None"]
Some(v) == [tag |-> "Some", val |-> v]
IsSome(o) == o.tag = "Some"
UnwrapOr(o, default) == IF o.tag = "Some" THEN o.val ELSE default

Max(a, b) == IF a >= b THEN a ELSE b

\* The files of the test bed.  "a" is a valid track of TrackLen audio packets;
\* "x" cannot be opened or probed; "y" probes but holds no track a decoder
\* can be made for; "b" is a valid track of a format whose seeks ask for a
\* decoder reset, holding a packet of another track, a corrupt packet (the
\* decoder answers DecodeError), a change of the track list (the reader
\* answers ResetRequired), a packet the decoder fails on otherwise, and a
\* stretch the reader cannot read; "r" is
\* a long valid track of such a format; "u" is a valid track whose header
\* does not give its number of frames.
Paths == {"a", "b", "c", "r", "u", "x", "y"}
UnknownLength == {"u"}
AudioPackets == [i \in 1..TrackLen |-> "audio"]
\* A track of more samples than a quarter of a second at its rate holds.
LongPackets == [i \in 1..(TrackLen + 3) |-> "audio"]
FileTable ==
  [a |-> [probes |-> TRUE,  codec |-> TRUE,  sample_rate |-> 16, channels |-> 2,
          packets |-> AudioPackets, seek_resets |-> FALSE],
   b |-> [probes |-> TRUE,  codec |-> TRUE,  sample_rate |-> 16, channels |-> 2,
          packets |-> <<"audio", "other_track", "corrupt", "reset_required",
                        "decode_err", "read_err">>,
          seek_resets |-> TRUE],
   c |-> [probes |-> TRUE,  codec |-> TRUE,  sample_rate |-> 16, channels |-> 2,
          packets |-> LongPackets, seek_resets |-> FALSE],
   r |-> [probes |-> TRUE,  codec |-> TRUE,  sample_rate |-> 16, channels |-> 2,
          packets |-> LongPackets, seek_resets |-> TRUE],
   u |-> [probes |-> TRUE,  codec |-> TRUE,  sample_rate |-> 16, channels |-> 2,
          packets |-> AudioPackets, seek_resets |-> FALSE],
   x |-> [probes |-> FALSE, codec |-> FALSE, sample_rate |-> 16, channels |-> 2,
          packets |-> <<>>, seek_resets |-> FALSE],
   y |-> [probes |-> TRUE,  codec |-> FALSE, sample_rate |-> 16, channels |-> 2,
          packets |-> <<>>, seek_resets |-> FALSE]]

\* The default configuration of the output device (what the fallback uses).
DeviceDefault == [sample_rate |-> 4, channels |-> 2]
\* What the platform lets build: the requested configuration, only the
\* device's default one, or no stream at all.
DeviceStates == {"exact", "fallback", "none"}
\* The platform behind each, with two more: a device that does not tell its
\* default configuration, and one on which neither configuration builds.
\* device: default_output_device() is Some; default_config:
\* default_output_config() is Ok; builds_requested, builds_default:
\* try_build_stream succeeds with that configuration.
Platforms == DeviceStates \cup {"no_default", "broken"}
PlatformTable ==
  [exact      |-> [device |-> TRUE,  default_config |-> TRUE,
                   builds_requested |-> TRUE,  builds_default |-> TRUE],
   fallback   |-> [device |-> TRUE,  default_config |-> TRUE,
                   builds_requested |-> FALSE, builds_default |-> TRUE],
   none       |-> [device |-> FALSE, default_config |-> FALSE,
                   builds_requested |-> FALSE, builds_default |-> FALSE],
   no_default |-> [device |-> TRUE,  default_config |-> FALSE,
                   builds_requested |-> TRUE,  builds_default |-> FALSE],
   broken     |-> [device |-> TRUE,  default_config |-> TRUE,
                   builds_requested |-> FALSE, builds_default |-> FALSE]]

\* AudioCommand
Cmd(kind, arg) == [kind |-> kind, arg |-> arg]
SeekTargets == {1, TrackLen + 1}
TransportCommands ==
  {Cmd("Play", p) : p \in {"a", "x", "y"}}
    \cup {Cmd(k, 0) : k \in {"Pause", "Resume", "Stop"}}
    \cup {Cmd("Seek", t) : t \in SeekTargets}
\* What the decoding caller sends: the long tracks, the faulty one, seeks.
DecodeCommands ==
  {Cmd("Play", p) : p \in {"b", "c", "r"}} \cup {Cmd("Seek", t) : t \in SeekTargets}
\* What the caller watching the position sends.
ClockCommands ==
  {Cmd("Play", p) : p \in {"a", "u"}} \cup {Cmd("Pause", 0)}
\* What the caller stepping through its playlist sends.
SkipCommands ==
  {Cmd("Play", "a")} \cup {Cmd(k, 0) : k \in {"Pause", "Next", "Previous"}}
SessionCommands ==
  {Cmd("Play", p) : p \in {"a", "c"}} \cup {Cmd(k, 0) : k \in {"Pause", "Shutdown"}}

\* AudioEvent
Ev(type, arg) == [type |-> type, arg |-> arg]

VARIABLES
  caller,        \* how the caller chooses commands: "free" or a scripted scenario
  device,        \* the platform's output device (environment)
  command_rx,    \* the command channel: commands sent and not yet received
  sent,          \* history: every command sent, in order, numbered
  received,      \* history: every command the loop took from the channel
  event_tx,      \* the event channel: every event sent, in order
  pc,            \* the control loop's position: "recv", "feed" or "exited"
  playback,      \* Option<PlaybackState>
  current_track, \* Option<TrackInfo>
  equalizer,     \* the shared Equalizer
  ticks,         \* history: decode/report halves run while playing
  peak,          \* history: most decoders/outputs alive at once during the last step
  played,        \* history: the buffered samples the hardware callback has put out
  engine,        \* the caller's AudioEngine: where it is in shutdown/drop, its thread handle
  bench          \* a component exercised on its own: its state and its last call

vars == <<caller, device, command_rx, sent, received, event_tx, pc, playback,
          current_track, equalizer, ticks, peak, played, engine, bench>>

\* ------------------------------------------------------------------ Equalizer
NumBands == 10
GainLimit == 12

\* A gain is an f32, here a whole number of dB or NaN, the f32 that is not a
\* number, written as a value no gain in use takes.  NaN compares false
\* with everything: Less is the `<` of f32.
NaN == 1000 * GainLimit
Less(a, b) == a # NaN /\ b # NaN /\ a < b

\* f32::clamp(-12.0, 12.0): the bound where the value is less than the lower
\* or more than the upper bound, else the value itself, NaN included.
Clamp(g) ==
  IF Less(g, -GainLimit) THEN -GainLimit ELSE IF Less(GainLimit, g) THEN GainLimit ELSE g

\* The value 0.0 of a sample.
Zero == [pk |-> -1, ep |-> -1, ch |-> 0, load |-> 0, eq |-> FALSE]

\* BiquadFilter.  Its five coefficients are kept as what they were computed
\* from; a sample it puts out is kept as what it was computed from (the
\* coefficients, the input and the four state values of the channel): the
\* same coefficients, input and state give the same output.
Neutral == [kind |-> "neutral", sample_rate |-> 0, frequency |-> 0, gain_db |-> 0, q |-> 0]
\* BiquadFilter::new
BiquadNew ==
  [coeffs |-> Neutral,
   x1_l |-> Zero, x2_l |-> Zero, y1_l |-> Zero, y2_l |-> Zero,
   x1_r |-> Zero, x2_r |-> Zero, y1_r |-> Zero, y2_r |-> Zero]
\* BiquadFilter::set_peaking_eq
SetPeakingEq(band, sample_rate, frequency, gain_db, q) ==
  [band EXCEPT !.coeffs = [kind |-> "peaking", sample_rate |-> sample_rate,
                           frequency |-> frequency, gain_db |-> gain_db, q |-> q]]
\* b0*x + b1*x1 + b2*x2 - a1*y1 - a2*y2
Filtered(coeffs, x, x1, x2, y1, y2) ==
  [biquad |-> coeffs, x |-> x, x1 |-> x1, x2 |-> x2, y1 |-> y1, y2 |-> y2]
\* BiquadFilter::process_stereo
BiquadProcessStereo(band, left, right) ==
  LET left_out == Filtered(band.coeffs, left, band.x1_l, band.x2_l, band.y1_l, band.y2_l)
      right_out == Filtered(band.coeffs, right, band.x1_r, band.x2_r, band.y1_r, band.y2_r)
  IN [out |-> <<left_out, right_out>>,
      band |-> [band EXCEPT !.x2_l = band.x1_l, !.x1_l = left,
                            !.y2_l = band.y1_l, !.y1_l = left_out,
                            !.x2_r = band.x1_r, !.x1_r = right,
                            !.y2_r = band.y1_r, !.y1_r = right_out]]
\* BiquadFilter::reset
BiquadReset(band) ==
  [band EXCEPT !.x1_l = Zero, !.x2_l = Zero, !.y1_l = Zero, !.y2_l = Zero,
               !.x1_r = Zero, !.x2_r = Zero, !.y1_r = Zero, !.y2_r = Zero]

\* The ten centre frequencies, in hundredths of a hertz.
Frequencies ==
  <<3125, 6250, 12500, 25000, 50000, 100000, 200000, 400000, 800000, 1600000>>
\* The Q factor of every band.
GraphicQ == 1

\* The model of the control loop keeps the equalizer without its bands (its
\* flag, gains and sample rate: Settings); the equalizer exercised on its own
\* has them.  The operations below serve both.
HasBands(eq) == "bands" \in DOMAIN eq
Settings(eq) == [enabled |-> eq.enabled, gains |-> eq.gains, sample_rate |-> eq.sample_rate]

\* Equalizer::update_filter (band_index is 0-based)
UpdateFilter(eq, band_index) ==
  IF HasBands(eq) /\ band_index < Len(eq.bands)
    THEN [eq EXCEPT !.bands[band_index + 1] =
            SetPeakingEq(@, eq.sample_rate, Frequencies[band_index + 1],
                         eq.gains[band_index + 1], GraphicQ)]
    ELSE eq
\* Equalizer::update_filters
UpdateFilters(eq) ==
  IF HasBands(eq)
    THEN [eq EXCEPT !.bands = [i \in 1..Len(eq.bands) |->
                                 SetPeakingEq(eq.bands[i], eq.sample_rate, Frequencies[i],
                                              eq.gains[i], GraphicQ)]]
    ELSE eq

\* Equalizer::new: ten bands at 0 dB, disabled.
EqualizerNew(sample_rate) ==
  UpdateFilters([enabled |-> FALSE, gains |-> [i \in 1..NumBands |-> 0],
                 sample_rate |-> sample_rate,
                 bands |-> [i \in 1..NumBands |-> BiquadNew]])

\* A set_enabled that leaves the bands as they are.
SetEnabledKeeping(eq, enabled) == [eq EXCEPT !.enabled = enabled]

\* Equalizer::set_enabled: disabling resets the state of every band.
SetEnabled(eq, enabled) ==
  IF enabled \/ ~HasBands(eq)
    THEN [eq EXCEPT !.enabled = enabled]
    ELSE [eq EXCEPT !.enabled = FALSE,
                    !.bands = [i \in 1..Len(eq.bands) |-> BiquadReset(eq.bands[i])]]

\* Equalizer::set_band_gain: band_index is 0-based; out of range changes nothing.
SetBandGain(eq, band_index, gain_db) ==
  IF band_index < Len(eq.gains)
    THEN UpdateFilter([eq EXCEPT !.gains[band_index + 1] = Clamp(gain_db)], band_index)
    ELSE eq

\* A set_all_gains that zeroes the gains it was not given.
SetAllGainsResetting(eq, gains) ==
  UpdateFilters([eq EXCEPT !.gains = [i \in 1..NumBands |->
                   IF i <= Len(gains) THEN Clamp(gains[i]) ELSE 0]])

\* Equalizer::set_all_gains: the leading min(len, 10) gains are replaced.
SetAllGains(eq, gains) ==
  UpdateFilters([eq EXCEPT !.gains = [i \in 1..NumBands |->
                   IF i <= Len(gains) THEN Clamp(gains[i]) ELSE eq.gains[i]]])

\* Equalizer::reset_all_bands
ResetAllBands(eq) == UpdateFilters([eq EXCEPT !.gains = [i \in 1..NumBands |-> 0]])

\* Equalizer::set_sample_rate (rates are whole numbers here, so a change of
\* more than 0.1 is any change)
SetSampleRate(eq, sample_rate) ==
  IF eq.sample_rate # sample_rate
    THEN UpdateFilters([eq EXCEPT !.sample_rate = sample_rate])
    ELSE eq

\* The bands in series, from band i on.
RECURSIVE ThroughBands(_, _, _, _)
ThroughBands(bands, i, l, r) ==
  IF i > Len(bands)
    THEN [out |-> <<l, r>>, bands |-> bands]
    ELSE LET p == BiquadProcessStereo(bands[i], l, r)
         IN ThroughBands([bands EXCEPT ![i] = p.band], i + 1, p.out[1], p.out[2])

\* A process_stereo that does not look at the enabled flag.
ProcessStereoAlways(eq, left, right) ==
  LET p == ThroughBands(eq.bands, 1, left, right)
  IN [out |-> p.out, eq |-> [eq EXCEPT !.bands = p.bands]]

\* Equalizer::process_stereo
ProcessStereo(eq, left, right) ==
  IF ~eq.enabled
    THEN [out |-> <<left, right>>, eq |-> eq]
    ELSE LET p == ThroughBands(eq.bands, 1, left, right)
         IN [out |-> p.out, eq |-> [eq EXCEPT !.bands = p.bands]]

\* ------------------------------------------------------------------ TrackInfo
Ok(v) == [tag |-> "Ok", val |-> v]
Err(e) == [tag |-> "Err", val |-> e]
IsOk(r) == r.tag = "Ok"

\* TrackInfo::from_file: open and probe; duration_secs is n_frames (in
\* frames) where the header gives it.
TrackInfoFromFile(path) ==
  IF ~FileTable[path].probes
    THEN Err("probe")
    ELSE Ok([path |-> path,
             duration_secs |-> IF path \in UnknownLength
                                 THEN None
                                 ELSE Some(Len(FileTable[path].packets)),
             sample_rate |-> FileTable[path].sample_rate,
             channels |-> FileTable[path].channels])

\* ------------------------------------------------------------------ SymphoniaPlayer
\* SymphoniaPlayer::load: open, probe, pick the track, make the decoder, then
\* tell the equalizer the sample rate.  Returns the player and the equalizer.
PlayerLoad(path, eq) ==
  IF ~FileTable[path].probes THEN [res |-> Err("probe"), eq |-> eq]
  ELSE IF ~FileTable[path].codec THEN [res |-> Err("decoder"), eq |-> eq]
  ELSE [res |-> Ok([path |-> path,
                    sample_rate |-> FileTable[path].sample_rate,
                    channels |-> FileTable[path].channels,
                    reader_pos |-> 0,
                    current_position |-> 0,
                    resets |-> 0,
                    epoch |-> 0,
                    load |-> 0]),
        eq |-> SetSampleRate(eq, FileTable[path].sample_rate)]

\* What the format reader answers to a seek: a target past the end fails;
\* otherwise the seek lands, or (by the format) asks for a decoder reset.
SeekOutcome(player, target) ==
  IF target > Len(FileTable[player.path].packets) THEN "fail"
  ELSE IF FileTable[player.path].seek_resets THEN "reset"
  ELSE "ok"

\* TimeBase::calc_time(ts).seconds with the time base of one frame: the whole
\* seconds of the timestamp, as a frame count; the fraction is dropped.
WholeSeconds(ts, sample_rate) == (ts \div sample_rate) * sample_rate

\* SymphoniaPlayer::seek.  epoch counts the seeks that took effect, so that a
\* sample can be told to be from before or after a seek.
PlayerSeek(player, target) ==
  CASE SeekOutcome(player, target) = "ok" ->
         [res |-> Ok(TRUE),
          player |-> [player EXCEPT !.reader_pos = target,
                                    !.current_position =
                                       WholeSeconds(target, player.sample_rate),
                                    !.resets = @ + 1,
                                    !.epoch = @ + 1]]
    [] SeekOutcome(player, target) = "reset" ->
         [res |-> Ok(TRUE),
          player |-> [player EXCEPT !.reader_pos = target,
                                    !.resets = @ + 1,
                                    !.epoch = @ + 1]]
    [] OTHER -> [res |-> Err("seek"), player |-> player]

\* What reading the next packet gives: the packet at the reader's position,
\* or the unexpected end of file that ends the stream.
NextPacket(player) ==
  IF player.reader_pos >= Len(FileTable[player.path].packets)
    THEN "eof"
    ELSE FileTable[player.path].packets[player.reader_pos + 1]

\* One decoded packet: one frame of interleaved samples, each named by its
\* packet, the seek epoch it was decoded in, and its channel.
Packet(player, eq) ==
  [c \in 1..player.channels |->
     [pk |-> player.reader_pos, ep |-> player.epoch, ch |-> c,
      load |-> player.load, eq |-> eq.enabled /\ player.channels <= 2]]

\* A decode_next that counts a skipped packet as a decoded frame.
DecodeNextCounting(player, eq) ==
  CASE NextPacket(player) = "eof" -> [res |-> Ok(None), player |-> player]
    [] NextPacket(player) = "read_err" -> [res |-> Err("read"), player |-> player]
    [] NextPacket(player) = "reset_required" ->
         [res |-> Ok(Some(<<>>)),
          player |-> [player EXCEPT !.reader_pos = @ + 1, !.resets = @ + 1]]
    [] NextPacket(player) \in {"other_track", "corrupt"} ->
         [res |-> Ok(Some(<<>>)),
          player |-> [player EXCEPT !.reader_pos = @ + 1, !.current_position = @ + 1]]
    [] NextPacket(player) = "decode_err" ->
         [res |-> Err("decode"),
          player |-> [player EXCEPT !.reader_pos = @ + 1]]
    [] OTHER ->
         [res |-> Ok(Some(Packet(player, eq))),
          player |-> [player EXCEPT
                        !.reader_pos = @ + 1,
                        !.current_position = @ + (Len(Packet(player, eq)) \div player.channels)]]

\* SymphoniaPlayer::decode_next: Ok(Some(samples)), Ok(None) or Err.  A read
\* error leaves the reader where it is; every packet read is consumed, and so
\* is the reader's request for a reset.
DecodeNext(player, eq) ==
  CASE NextPacket(player) = "eof" -> [res |-> Ok(None), player |-> player]
    [] NextPacket(player) = "read_err" -> [res |-> Err("read"), player |-> player]
    [] NextPacket(player) = "reset_required" ->
         [res |-> Ok(Some(<<>>)),
          player |-> [player EXCEPT !.reader_pos = @ + 1, !.resets = @ + 1]]
    [] NextPacket(player) \in {"other_track", "corrupt"} ->
         [res |-> Ok(Some(<<>>)),
          player |-> [player EXCEPT !.reader_pos = @ + 1]]
    [] NextPacket(player) = "decode_err" ->
         [res |-> Err("decode"),
          player |-> [player EXCEPT !.reader_pos = @ + 1]]
    [] OTHER ->
         [res |-> Ok(Some(Packet(player, eq))),
          player |-> [player EXCEPT
                        !.reader_pos = @ + 1,
                        !.current_position = @ + (Len(Packet(player, eq)) \div player.channels)]]

\* ------------------------------------------------------------------ CpalOutput
\* CpalOutput::try_build_stream builds the stream, whose callback owns the
\* sample buffer and playing flag created there (cb_sample_buffer,
\* cb_is_playing); CpalOutput::new then creates the sample_buffer and
\* is_playing that the CpalOutput itself keeps.
OutputOf(sample_rate, channels) ==
  [sample_rate |-> sample_rate, channels |-> channels,
   sample_buffer |-> <<>>, is_playing |-> TRUE,
   cb_sample_buffer |-> <<>>, cb_is_playing |-> TRUE]

\* CpalOutput::new: the device, then its default configuration (an error of
\* either is the result), then the stream with the requested configuration,
\* else with the default one, else an error.
OutputNew(requested_sample_rate, requested_channels, dev) ==
  LET platform == PlatformTable[dev] IN
  IF ~platform.device THEN Err("output")
  ELSE IF ~platform.default_config THEN Err("output")
  ELSE IF platform.builds_requested
    THEN Ok(OutputOf(requested_sample_rate, requested_channels))
  ELSE IF platform.builds_default
    THEN Ok(OutputOf(DeviceDefault.sample_rate, DeviceDefault.channels))
  ELSE Err("output")

\* CpalOutput::write_samples
WriteSamples(output, samples) ==
  [output EXCEPT !.sample_buffer = @ \o samples]

\* CpalOutput::play
OutputPlay(output) == [output EXCEPT !.is_playing = TRUE]

\* CpalOutput::pause
OutputPause(output) == [output EXCEPT !.is_playing = FALSE]

\* CpalOutput::clear
OutputClear(output) == [output EXCEPT !.sample_buffer = <<>>]

\* CpalOutput::buffer_len
BufferLen(output) == Len(output.sample_buffer)

\* needs_data with the low-water mark included.
NeedsDataInclusive(output) ==
  BufferLen(output) <= (output.sample_rate * output.channels) \div 4

\* CpalOutput::needs_data
NeedsData(output) ==
  BufferLen(output) < (output.sample_rate * output.channels) \div 4

\* The output callback of try_build_stream, asked for n samples: silence
\* while not playing, else the front of its buffer padded with zeros.
Silence == Zero
\* The samples of an output slice that came from the buffer.
Audible(slice) == SelectSeq(slice, LAMBDA x : x # Silence)

\* A callback that writes only what it popped.
CallbackFillShort(output, n) ==
  IF ~output.cb_is_playing
    THEN [data |-> [i \in 1..n |-> Silence], output |-> output]
    ELSE LET buf == output.cb_sample_buffer
             k == IF Len(buf) < n THEN Len(buf) ELSE n
         IN [data |-> SubSeq(buf, 1, k),
             output |-> [output EXCEPT !.cb_sample_buffer = SubSeq(buf, k + 1, Len(buf))]]

CallbackFill(output, n) ==
  IF ~output.cb_is_playing
    THEN [data |-> [i \in 1..n |-> Silence], output |-> output]
    ELSE LET buf == output.cb_sample_buffer
             k == IF Len(buf) < n THEN Len(buf) ELSE n
         IN [data |-> [i \in 1..n |-> IF i <= k THEN buf[i] ELSE Silence],
             output |-> [output EXCEPT !.cb_sample_buffer = SubSeq(buf, k + 1, Len(buf))]]

\* ------------------------------------------------------------------ control loop
\* PlaybackState
PlaybackState(player, output) ==
  [player |-> player, output |-> output, is_paused |-> FALSE]

\* load_and_play: the player, then the output; an error of either is the
\* result.  made counts the decoders and outputs it constructed.
LoadAndPlay(path, eq, dev, load) ==
  LET p == PlayerLoad(path, eq) IN
  IF ~IsOk(p.res)
    THEN [res |-> p.res, eq |-> p.eq, made |-> [decoders |-> 0, outputs |-> 0]]
    ELSE LET o == OutputNew(p.res.val.sample_rate, p.res.val.channels, dev) IN
         IF ~IsOk(o)
           THEN [res |-> o, eq |-> p.eq, made |-> [decoders |-> 1, outputs |-> 0]]
           ELSE [res |-> Ok(PlaybackState([p.res.val EXCEPT !.load = load], o.val)),
                 eq |-> p.eq, made |-> [decoders |-> 1, outputs |-> 1]]

\* Mutant: the Play arm loads without dropping the prior PlaybackState.
StopCurrentPlaybackSkipped(pb) == pb

\* `playback = None;` at the head of the Play arm: the prior PlaybackState is
\* dropped before anything is loaded.
StopCurrentPlayback(pb) == None

Live(pb) == IF IsSome(pb) THEN 1 ELSE 0

\* What one arm of the command match leaves: the loop's locals, the events it
\* sent (in order), whether the loop breaks, and the most decoders and
\* outputs that were alive at once while it ran.
Outcome(pb, ct, eq, events, exit, decoders, outputs) ==
  [playback |-> pb, current_track |-> ct, equalizer |-> eq, events |-> events,
   exit |-> exit, peak |-> [decoders |-> decoders, outputs |-> outputs]]

\* Mutant: the Play arm reports the result of the load before TrackLoaded.
ApplyPlayResultFirst(cmd, pb, ct, eq, dev) ==
  LET pb0 == StopCurrentPlayback(pb)
      info == TrackInfoFromFile(cmd.arg)
  IN IF ~IsOk(info)
       THEN Outcome(pb0, ct, eq, <<Ev("Error", "Failed to load track")>>, FALSE,
                    Live(pb), Live(pb))
       ELSE LET l == LoadAndPlay(cmd.arg, eq, dev, cmd.id) IN
            IF IsOk(l.res)
              THEN Outcome(Some(l.res.val), Some(info.val), l.eq,
                           <<Ev("Playing", 0), Ev("TrackLoaded", cmd.arg)>>, FALSE,
                           Live(pb0) + l.made.decoders, Live(pb0) + l.made.outputs)
              ELSE Outcome(pb0, Some(info.val), l.eq,
                           <<Ev("Error", "Failed to play"), Ev("TrackLoaded", cmd.arg)>>, FALSE,
                           Live(pb0) + l.made.decoders, Live(pb0) + l.made.outputs)

\* AudioCommand::Play(path)
ApplyPlay(cmd, pb, ct, eq, dev) ==
  LET pb0 == StopCurrentPlayback(pb)
      info == TrackInfoFromFile(cmd.arg)
  IN IF ~IsOk(info)
       THEN Outcome(pb0, ct, eq, <<Ev("Error", "Failed to load track")>>, FALSE,
                    Live(pb), Live(pb))
       ELSE LET l == LoadAndPlay(cmd.arg, eq, dev, cmd.id) IN
            IF IsOk(l.res)
              THEN Outcome(Some(l.res.val), Some(info.val), l.eq,
                           <<Ev("TrackLoaded", cmd.arg), Ev("Playing", 0)>>, FALSE,
                           Max(Live(pb), Live(pb0) + l.made.decoders),
                           Max(Live(pb), Live(pb0) + l.made.outputs))
              ELSE Outcome(pb0, Some(info.val), l.eq,
                           <<Ev("TrackLoaded", cmd.arg), Ev("Error", "Failed to play")>>, FALSE,
                           Max(Live(pb), Live(pb0) + l.made.decoders),
                           Max(Live(pb), Live(pb0) + l.made.outputs))

\* Mutant: Pause without the test of the paused flag.
ApplyPauseUnguarded(pb, ct, eq) ==
  IF IsSome(pb)
    THEN Outcome(Some([pb.val EXCEPT !.output = OutputPause(@), !.is_paused = TRUE]),
                 ct, eq, <<Ev("Paused", 0)>>, FALSE, Live(pb), Live(pb))
    ELSE Outcome(pb, ct, eq, <<>>, FALSE, Live(pb), Live(pb))

\* AudioCommand::Pause
ApplyPause(pb, ct, eq) ==
  IF IsSome(pb) /\ ~pb.val.is_paused
    THEN Outcome(Some([pb.val EXCEPT !.output = OutputPause(@), !.is_paused = TRUE]),
                 ct, eq, <<Ev("Paused", 0)>>, FALSE, Live(pb), Live(pb))
    ELSE Outcome(pb, ct, eq, <<>>, FALSE, Live(pb), Live(pb))

\* Mutant: Resume clears the flag and tells nobody.
ApplyResumeSilent(pb, ct, eq) ==
  IF IsSome(pb) /\ pb.val.is_paused
    THEN Outcome(Some([pb.val EXCEPT !.output = OutputPlay(@), !.is_paused = FALSE]),
                 ct, eq, <<>>, FALSE, Live(pb), Live(pb))
    ELSE Outcome(pb, ct, eq, <<>>, FALSE, Live(pb), Live(pb))

\* AudioCommand::Resume
ApplyResume(pb, ct, eq) ==
  IF IsSome(pb) /\ pb.val.is_paused
    THEN Outcome(Some([pb.val EXCEPT !.output = OutputPlay(@), !.is_paused = FALSE]),
                 ct, eq, <<Ev("Playing", 0)>>, FALSE, Live(pb), Live(pb))
    ELSE Outcome(pb, ct, eq, <<>>, FALSE, Live(pb), Live(pb))

\* Mutant: Stop reports Stopped and keeps the playback state.
ApplyStopKeeping(pb, ct, eq) ==
  Outcome(pb, ct, eq, <<Ev("Stopped", 0)>>, FALSE, Live(pb), Live(pb))

\* AudioCommand::Stop
ApplyStop(pb, ct, eq) ==
  Outcome(None, None, eq, <<Ev("Stopped", 0)>>, FALSE, Live(pb), Live(pb))

\* A skip that sends its request and keeps playing the current track.
ApplySkipKeeping(request, pb, ct, eq) ==
  Outcome(pb, ct, eq, <<Ev(request, 0)>>, FALSE, Live(pb), Live(pb))

\* AudioCommand::Next and AudioCommand::Previous, which differ in the
\* request they send.
ApplySkip(request, pb, ct, eq) ==
  Outcome(None, None, eq, <<Ev(request, 0)>>, FALSE, Live(pb), Live(pb))

\* Mutant: the seek leaves the output buffer as it is.
AfterSeekOkKeeping(output) == output

\* The Ok arm of a seek: the output buffer is cleared.
AfterSeekOk(output) == OutputClear(output)

\* Mutant: a successful seek resumes playback.
ApplySeekResuming(cmd, pb, ct, eq) ==
  IF IsSome(pb)
    THEN LET r == PlayerSeek(pb.val.player, cmd.arg) IN
         IF IsOk(r.res)
           THEN Outcome(Some([pb.val EXCEPT !.player = r.player,
                                            !.output = OutputPlay(OutputClear(@)),
                                            !.is_paused = FALSE]),
                        ct, eq, <<Ev("Playing", 0)>>, FALSE, Live(pb), Live(pb))
           ELSE Outcome(Some([pb.val EXCEPT !.player = r.player]),
                        ct, eq, <<Ev("Error", "Failed to seek")>>, FALSE, Live(pb), Live(pb))
    ELSE Outcome(pb, ct, eq, <<>>, FALSE, Live(pb), Live(pb))

\* AudioCommand::Seek(pos)
ApplySeek(cmd, pb, ct, eq) ==
  IF IsSome(pb)
    THEN LET r == PlayerSeek(pb.val.player, cmd.arg) IN
         IF IsOk(r.res)
           THEN Outcome(Some([pb.val EXCEPT !.player = r.player,
                                            !.output = AfterSeekOk(@)]),
                        ct, eq, <<Ev("Playing", 0)>>, FALSE, Live(pb), Live(pb))
           ELSE Outcome(Some([pb.val EXCEPT !.player = r.player]),
                        ct, eq, <<Ev("Error", "Failed to seek")>>, FALSE, Live(pb), Live(pb))
    ELSE Outcome(pb, ct, eq, <<>>, FALSE, Live(pb), Live(pb))

\* Equalizer arms that report the gains read before the change.
ApplyEqualizerStale(cmd, pb, ct, eq) ==
  LET eq1 == CASE cmd.kind = "SetEqualizerEnabled" -> SetEnabled(eq, cmd.arg)
               [] cmd.kind = "SetEqualizerBand" -> SetBandGain(eq, cmd.arg[1], cmd.arg[2])
               [] cmd.kind = "SetEqualizerBands" -> SetAllGains(eq, cmd.arg)
               [] OTHER -> ResetAllBands(eq)
  IN Outcome(pb, ct, eq1, <<Ev("EqualizerUpdated", <<eq1.enabled, eq.gains>>)>>, FALSE,
             Live(pb), Live(pb))

\* The equalizer arms: mutate under the lock, then report enabled and gains.
ApplyEqualizer(cmd, pb, ct, eq) ==
  LET eq1 == CASE cmd.kind = "SetEqualizerEnabled" -> SetEnabled(eq, cmd.arg)
               [] cmd.kind = "SetEqualizerBand" -> SetBandGain(eq, cmd.arg[1], cmd.arg[2])
               [] cmd.kind = "SetEqualizerBands" -> SetAllGains(eq, cmd.arg)
               [] OTHER -> ResetAllBands(eq)
  IN Outcome(pb, ct, eq1, <<Ev("EqualizerUpdated", <<eq1.enabled, eq1.gains>>)>>, FALSE,
             Live(pb), Live(pb))

\* A Shutdown arm that does not break the loop.
ApplyShutdownIgnored(pb, ct, eq) ==
  Outcome(pb, ct, eq, <<>>, FALSE, Live(pb), Live(pb))

\* The Shutdown arm: break.
ApplyShutdown(pb, ct, eq) ==
  Outcome(pb, ct, eq, <<>>, TRUE, Live(pb), Live(pb))

\* The match on the received command.
ApplyCommand(cmd, pb, ct, eq, dev) ==
  CASE cmd.kind = "Play" -> ApplyPlay(cmd, pb, ct, eq, dev)
    [] cmd.kind = "Pause" -> ApplyPause(pb, ct, eq)
    [] cmd.kind = "Resume" -> ApplyResume(pb, ct, eq)
    [] cmd.kind = "Stop" -> ApplyStop(pb, ct, eq)
    [] cmd.kind = "Seek" -> ApplySeek(cmd, pb, ct, eq)
    [] cmd.kind = "Next" -> ApplySkip("RequestNext", pb, ct, eq)
    [] cmd.kind = "Previous" -> ApplySkip("RequestPrevious", pb, ct, eq)
    [] cmd.kind = "Shutdown" -> ApplyShutdown(pb, ct, eq)
    [] OTHER -> ApplyEqualizer(cmd, pb, ct, eq)

\* An event as logged: by is the number of the command whose arm sent it (0
\* for the decode/report half); load is the number of the Play command it
\* belongs to: the Play itself for the events of its arm, else the Play that
\* loaded the track the loop held when the event was sent (0: no track).
Logged(events, by, load) ==
  [i \in 1..Len(events) |->
     [type |-> events[i].type, arg |-> events[i].arg, by |-> by, load |-> load]]

LoadOf(pb) == IF IsSome(pb) THEN pb.val.player.load ELSE 0

\* Mutant: the receiver takes the newest queued command.
TryRecvNewest(queue) ==
  [cmd |-> queue[Len(queue)], rest |-> SubSeq(queue, 1, Len(queue) - 1)]

\* Receiver::try_recv on the command channel: the oldest queued command.
TryRecv(queue) == [cmd |-> Head(queue), rest |-> Tail(queue)]

\* ------------------------------------------------------------------ the caller
EqualizerCommands ==
  {Cmd("SetEqualizerEnabled", b) : b \in BOOLEAN}
    \cup {Cmd("SetEqualizerBand", a) : a \in {<<0, 6>>, <<0, 20>>, <<9, -20>>, <<10, 6>>, <<1, NaN>>}}
    \cup {Cmd("SetEqualizerBands", g) : g \in {<<3, -15>>, [i \in 1..(NumBands + 1) |-> 13]}}
    \cup {Cmd("ResetEqualizer", 0)}

\* The test scenario of the command/event causality property.
Scenario == <<Cmd("Play", "a"), Cmd("Pause", 0), Cmd("Resume", 0), Cmd("Stop", 0)>>

\* The commands the caller may send next.  The equalizer caller sends its
\* equalizer commands with no track, with a track playing or with it paused,
\* each once the loop has taken the one before (commands queued behind one
\* another are the transport caller's).
NextCommands ==
  CASE caller = "scenario" ->
         IF Len(sent) < Len(Scenario) THEN {Scenario[Len(sent) + 1]} ELSE {}
    [] caller = "equalizer" ->
         IF command_rx # <<>> THEN {}
         ELSE (IF sent = <<>> THEN {Cmd("Play", "a")} ELSE {})
           \cup (IF Len(sent) = 1 /\ sent[1].kind = "Play" THEN {Cmd("Pause", 0)} ELSE {})
           \cup (IF Len(SelectSeq(sent, LAMBDA c : c.kind \notin {"Play", "Pause"})) < MaxEqCmds
                   THEN EqualizerCommands ELSE {})
    [] caller = "clock" ->
         IF Len(sent) < MaxClockCmds THEN ClockCommands ELSE {}
    [] caller = "decode" ->
         IF Len(sent) < MaxDecodeCmds THEN DecodeCommands ELSE {}
    [] caller = "skip" ->
         IF Len(sent) < MaxSkipCmds THEN SkipCommands ELSE {}
    [] caller = "session" ->
         IF Len(sent) < MaxSessionCmds THEN SessionCommands ELSE {}
    [] OTHER ->
         IF Len(sent) < MaxCmds THEN TransportCommands ELSE {}

\* AudioEngine::send_command: the command, numbered in sending order, is
\* appended to the channel.
SendCommand ==
  /\ pc # "exited"
  /\ engine.phase = "running"
  /\ \E c \in NextCommands :
       LET cmd == [kind |-> c.kind, arg |-> c.arg, id |-> Len(sent) + 1] IN
       /\ command_rx' = Append(command_rx, cmd)
       /\ sent' = Append(sent, cmd)
  /\ UNCHANGED <<caller, device, received, event_tx, pc, playback, current_track,
                 equalizer, ticks, peak, played, engine, bench>>

\* ------------------------------------------------------------------ the loop
\* The first half of a loop iteration: try_recv, and the match on the
\* command if there is one.  Shutdown breaks the loop, and the return drops
\* the loop's locals.
LoopCommand ==
  /\ pc = "recv"
  /\ IF command_rx = <<>>
       THEN /\ pc' = "feed"
            /\ peak' = [decoders |-> Live(playback), outputs |-> Live(playback)]
            /\ UNCHANGED <<command_rx, received, event_tx, playback, current_track,
                           equalizer>>
       ELSE LET got == TryRecv(command_rx)
                cmd == got.cmd
                r == ApplyCommand(cmd, playback, current_track, equalizer, device)
            IN /\ command_rx' = got.rest
               /\ received' = Append(received, cmd)
               /\ event_tx' = event_tx \o Logged(r.events, cmd.id,
                                                 IF cmd.kind = "Play" THEN cmd.id
                                                                      ELSE LoadOf(playback))
               /\ equalizer' = r.equalizer
               /\ peak' = r.peak
               /\ IF r.exit
                    THEN /\ pc' = "exited"
                         /\ playback' = None
                         /\ current_track' = None
                    ELSE /\ pc' = "feed"
                         /\ playback' = r.playback
                         /\ current_track' = r.current_track
  /\ UNCHANGED <<caller, device, sent, ticks, played, engine, bench>>

\* A feed that reports the end of the stream and keeps the playback state.
FeedPlayingKeeping(state, ct, eq, elapsed) ==
  LET needs == NeedsData(state.output)
      d == IF needs THEN DecodeNext(state.player, eq)
                    ELSE [res |-> Err("not called"), player |-> state.player]
      samples == IF needs /\ IsOk(d.res) /\ IsSome(d.res.val) THEN d.res.val.val ELSE <<>>
      end_of_stream == needs /\ IsOk(d.res) /\ ~IsSome(d.res.val)
      output1 == IF samples # <<>> THEN WriteSamples(state.output, samples)
                                   ELSE state.output
      finished == IF end_of_stream THEN <<Ev("Finished", 0)>> ELSE <<>>
  IN [playback |-> Some([state EXCEPT !.player = d.player, !.output = output1]),
      current_track |-> ct,
      events |-> <<Ev("VisualizationData", 0)>> \o finished]

\* A feed that decodes whether or not the output needs data.
FeedPlayingUnthrottled(state, ct, eq, elapsed) ==
  LET d == DecodeNext(state.player, eq)
      samples == IF IsOk(d.res) /\ IsSome(d.res.val) THEN d.res.val.val ELSE <<>>
      end_of_stream == IsOk(d.res) /\ ~IsSome(d.res.val)
      output1 == IF samples # <<>> THEN WriteSamples(state.output, samples)
                                   ELSE state.output
      finished == IF end_of_stream THEN <<Ev("Finished", 0)>> ELSE <<>>
  IN [playback |-> IF end_of_stream
                     THEN None
                     ELSE Some([state EXCEPT !.player = d.player, !.output = output1]),
      current_track |-> IF end_of_stream THEN None ELSE ct,
      events |-> <<Ev("VisualizationData", 0)>> \o finished]

\* A feed that takes a decode failure for the end of the stream.
FeedPlayingAborting(state, ct, eq, elapsed) ==
  LET needs == NeedsData(state.output)
      d == IF needs THEN DecodeNext(state.player, eq)
                    ELSE [res |-> Err("not called"), player |-> state.player]
      samples == IF needs /\ IsOk(d.res) /\ IsSome(d.res.val) THEN d.res.val.val ELSE <<>>
      end_of_stream == needs /\ (~IsOk(d.res) \/ ~IsSome(d.res.val))
      output1 == IF samples # <<>> THEN WriteSamples(state.output, samples)
                                   ELSE state.output
      position == IF elapsed /\ IsSome(ct)
                    THEN <<Ev("Position", <<d.player.current_position,
                                            UnwrapOr(ct.val.duration_secs, 0)>>)>>
                    ELSE <<>>
      finished == IF end_of_stream THEN <<Ev("Finished", 0)>> ELSE <<>>
  IN [playback |-> IF end_of_stream
                     THEN None
                     ELSE Some([state EXCEPT !.player = d.player, !.output = output1]),
      current_track |-> IF end_of_stream THEN None ELSE ct,
      events |-> position \o <<Ev("VisualizationData", 0)>> \o finished]

\* A feed that reports the position on every iteration.
FeedPlayingEager(state, ct, eq, elapsed) ==
  LET needs == NeedsData(state.output)
      d == IF needs THEN DecodeNext(state.player, eq)
                    ELSE [res |-> Err("not called"), player |-> state.player]
      samples == IF needs /\ IsOk(d.res) /\ IsSome(d.res.val) THEN d.res.val.val ELSE <<>>
      end_of_stream == needs /\ IsOk(d.res) /\ ~IsSome(d.res.val)
      output1 == IF samples # <<>> THEN WriteSamples(state.output, samples)
                                   ELSE state.output
      position == IF IsSome(ct)
                    THEN <<Ev("Position", <<d.player.current_position,
                                            UnwrapOr(ct.val.duration_secs, 0)>>)>>
                    ELSE <<>>
      finished == IF end_of_stream THEN <<Ev("Finished", 0)>> ELSE <<>>
  IN [playback |-> IF end_of_stream
                     THEN None
                     ELSE Some([state EXCEPT !.player = d.player, !.output = output1]),
      current_track |-> IF end_of_stream THEN None ELSE ct,
      events |-> position \o <<Ev("VisualizationData", 0)>> \o finished]

\* The second half of a loop iteration while a track plays unpaused: decode
\* one packet if the output needs data, report position (throttled by the
\* clock: elapsed says whether 100 ms have passed) and visualization data,
\* and tear down at end of stream.
FeedPlaying(state, ct, eq, elapsed) ==
  LET needs == NeedsData(state.output)
      d == IF needs THEN DecodeNext(state.player, eq)
                    ELSE [res |-> Err("not called"), player |-> state.player]
      samples == IF needs /\ IsOk(d.res) /\ IsSome(d.res.val) THEN d.res.val.val ELSE <<>>
      end_of_stream == needs /\ IsOk(d.res) /\ ~IsSome(d.res.val)
      output1 == IF samples # <<>> THEN WriteSamples(state.output, samples)
                                   ELSE state.output
      position == IF elapsed /\ IsSome(ct)
                    THEN <<Ev("Position", <<d.player.current_position,
                                            UnwrapOr(ct.val.duration_secs, 0)>>)>>
                    ELSE <<>>
      finished == IF end_of_stream THEN <<Ev("Finished", 0)>> ELSE <<>>
  IN [playback |-> IF end_of_stream
                     THEN None
                     ELSE Some([state EXCEPT !.player = d.player, !.output = output1]),
      current_track |-> IF end_of_stream THEN None ELSE ct,
      events |-> position \o <<Ev("VisualizationData", 0)>> \o finished]

\* A feed half that runs whenever there is a playback state.
FeedsWhilePaused(pb) == IsSome(pb)

\* `if let Some(ref mut state) = playback { if !state.is_paused {`: the feed
\* half does its work only for an unpaused playback state.
Feeds(pb) == IsSome(pb) /\ ~pb.val.is_paused

LoopFeed ==
  /\ pc = "feed"
  /\ pc' = "recv"
  /\ IF Feeds(playback)
       THEN /\ ticks < MaxTicks
            /\ \E elapsed \in BOOLEAN :
                 LET r == FeedPlaying(playback.val, current_track, equalizer, elapsed)
                 IN /\ playback' = r.playback
                    /\ current_track' = r.current_track
                    /\ event_tx' = event_tx \o Logged(r.events, 0, LoadOf(playback))
            /\ ticks' = ticks + 1
       ELSE UNCHANGED <<playback, current_track, event_tx, ticks>>
  /\ peak' = [decoders |-> Live(playback), outputs |-> Live(playback)]
  /\ UNCHANGED <<caller, device, command_rx, sent, received, equalizer, played,
                 engine, bench>>

\* The feed half with the loop's clock, in milliseconds since the thread
\* started: bench holds now, last_position_update and (for the record) the
\* times at which a Position event was sent.  An iteration lasts half or
\* all of the update interval.
PositionUpdateInterval == 100

LoopFeedTimed ==
  /\ pc = "feed"
  /\ bench.op = "clock"
  /\ pc' = "recv"
  /\ \E lasts \in {PositionUpdateInterval \div 2, PositionUpdateInterval} :
       /\ bench.now <= MaxIntervals * PositionUpdateInterval
       /\ IF Feeds(playback)
            THEN LET elapsed == bench.now - bench.last_position_update >= PositionUpdateInterval
                     r == FeedPlaying(playback.val, current_track, equalizer, elapsed)
                 IN /\ ticks < MaxTicks
                    /\ playback' = r.playback
                    /\ current_track' = r.current_track
                    /\ event_tx' = event_tx \o Logged(r.events, 0, LoadOf(playback))
                    /\ ticks' = ticks + 1
                    /\ bench' = [bench EXCEPT
                         !.now = @ + lasts,
                         !.last_position_update = IF elapsed THEN bench.now ELSE @,
                         !.position_sent =
                            IF \E i \in 1..Len(r.events) : r.events[i].type = "Position"
                              THEN Append(@, bench.now) ELSE @]
            ELSE /\ bench' = [bench EXCEPT !.now = @ + lasts]
                 /\ UNCHANGED <<playback, current_track, event_tx, ticks>>
  /\ peak' = [decoders |-> Live(playback), outputs |-> Live(playback)]
  /\ UNCHANGED <<caller, device, command_rx, sent, received, equalizer, played, engine>>

\* The platform invokes the stream's output callback for n samples, at any
\* time while the stream exists.
HardwareCallback ==
  /\ pc # "exited"
  /\ IsSome(playback)
  /\ \E n \in 1..MaxRequest :
       LET r == CallbackFill(playback.val.output, n) IN
       /\ played' = played \o Audible(r.data)
       /\ playback' = Some([playback.val EXCEPT !.output = r.output])
  /\ UNCHANGED <<caller, device, command_rx, sent, received, event_tx, pc,
                 current_track, equalizer, ticks, peak, engine, bench>>

\* The feed half of an iteration as LoopFeed, for runs of any length: the
\* iteration is not counted and its Position and VisualizationData events
\* are left out of the history, which keeps Finished.
LoopFeedQuiet ==
  /\ pc = "feed"
  /\ pc' = "recv"
  /\ IF Feeds(playback)
       THEN LET r == FeedPlaying(playback.val, current_track, equalizer, FALSE)
                kept == SelectSeq(r.events, LAMBDA e : e.type = "Finished")
            IN /\ playback' = r.playback
               /\ current_track' = r.current_track
               /\ event_tx' = event_tx \o Logged(kept, 0, LoadOf(playback))
       ELSE UNCHANGED <<playback, current_track, event_tx>>
  /\ peak' = [decoders |-> Live(playback), outputs |-> Live(playback)]
  /\ UNCHANGED <<caller, device, command_rx, sent, received, equalizer, ticks, played,
                 engine, bench>>

\* ------------------------------------------------------------------ a CpalOutput on its own
\* A sample as a test writes it: the k-th of the samples it made.
BenchSample(k) == [pk |-> k, ep |-> 0, ch |-> 1, load |-> 0, eq |-> FALSE]
BenchQueues == {[i \in 1..len |-> BenchSample(i)] : len \in 0..MaxBuffered}
\* An output of any rate and channel count, with any number of samples
\* written, playing or paused; and the callback's closure on any contents
\* of the queue and flag it captured.
Sinks ==
  {[sample_rate |-> rate, channels |-> channels,
    sample_buffer |-> written, is_playing |-> playing,
    cb_sample_buffer |-> captured, cb_is_playing |-> cb_playing] :
     rate \in 1..MaxRate, channels \in 1..MaxChannels,
     written \in BenchQueues, playing \in BOOLEAN,
     captured \in BenchQueues, cb_playing \in BOOLEAN}
SinkBench(output) ==
  [op |-> "sink", output |-> output, call |-> "new", before |-> output,
   n |-> 0, data |-> <<>>, needs |-> FALSE]

\* The platform calls the output's callback for n samples.
SinkCallback ==
  /\ bench.op = "sink"
  /\ \E n \in 1..MaxRequest :
       LET r == CallbackFill(bench.output, n) IN
       bench' = [bench EXCEPT !.call = "callback", !.before = bench.output,
                              !.n = n, !.data = r.data, !.output = r.output]
  /\ UNCHANGED <<caller, device, command_rx, sent, received, event_tx, pc, playback,
                 current_track, equalizer, ticks, peak, played, engine>>

\* CpalOutput::needs_data is called.
SinkNeedsData ==
  /\ bench.op = "sink"
  /\ bench' = [bench EXCEPT !.call = "needs_data", !.before = bench.output,
                            !.needs = NeedsData(bench.output)]
  /\ UNCHANGED <<caller, device, command_rx, sent, received, event_tx, pc, playback,
                 current_track, equalizer, ticks, peak, played, engine>>

\* ------------------------------------------------------------------ the locks of a CpalOutput
\* The mutexes of one output: the two in its fields and the two that the
\* callback's closure captured; each is free or held by one thread.
Mutexes == {"sample_buffer", "is_playing", "cb_sample_buffer", "cb_is_playing"}

\* A guard that is never dropped.
UnlockLeaking(locks, m) == locks

\* Mutex::lock returning the guard, and the drop of the guard.
Lock(locks, m, thread) == [locks EXCEPT ![m] = thread]
Unlock(locks, m) == [locks EXCEPT ![m] = "none"]

\* The calls the control thread makes on the output, the mutex each locks,
\* and what each does under its lock.
SinkMutex(call) ==
  IF call \in {"pause", "play"} THEN "is_playing" ELSE "sample_buffer"
SinkEffect(output, call) ==
  CASE call = "write_samples" ->
         WriteSamples(output, <<BenchSample(BufferLen(output) + 1)>>)
    [] call = "clear" -> OutputClear(output)
    [] call = "pause" -> OutputPause(output)
    [] call = "play" -> OutputPlay(output)
    [] OTHER -> output

\* control, callback: where each thread is (at) in the call it makes.
LockBench(output) ==
  [op |-> "locks", output |-> output, locks |-> [m \in Mutexes |-> "none"],
   control |-> [at |-> "idle", call |-> "none"],
   callback |-> [at |-> "idle", playing |-> TRUE]]

\* The control thread calls one of the output's methods.
ControlCall ==
  /\ bench.op = "locks"
  /\ bench.control.at = "idle"
  /\ \E call \in {"write_samples", "clear", "buffer_len", "pause", "play"} :
       /\ call = "write_samples" => BufferLen(bench.output) < MaxBuffered
       /\ bench' = [bench EXCEPT !.control = [at |-> "lock", call |-> call]]
  /\ UNCHANGED <<caller, device, command_rx, sent, received, event_tx, pc, playback,
                 current_track, equalizer, ticks, peak, played, engine>>

\* The method's lock() returns once the mutex is free.
ControlLock ==
  /\ bench.op = "locks"
  /\ bench.control.at = "lock"
  /\ bench.locks[SinkMutex(bench.control.call)] = "none"
  /\ bench' = [bench EXCEPT
                 !.locks = Lock(@, SinkMutex(bench.control.call), "control"),
                 !.control.at = "locked"]
  /\ UNCHANGED <<caller, device, command_rx, sent, received, event_tx, pc, playback,
                 current_track, equalizer, ticks, peak, played, engine>>

\* The method works under its lock, drops the guard and returns.
ControlUnlock ==
  /\ bench.op = "locks"
  /\ bench.control.at = "locked"
  /\ bench' = [bench EXCEPT
                 !.output = SinkEffect(@, bench.control.call),
                 !.locks = Unlock(@, SinkMutex(bench.control.call)),
                 !.control = [at |-> "idle", call |-> "none"]]
  /\ UNCHANGED <<caller, device, command_rx, sent, received, event_tx, pc, playback,
                 current_track, equalizer, ticks, peak, played, engine>>

\* The platform invokes the output callback on its own thread.
CallbackInvoke ==
  /\ bench.op = "locks"
  /\ bench.callback.at = "idle"
  /\ bench' = [bench EXCEPT !.callback.at = "lock_buffer"]
  /\ UNCHANGED <<caller, device, command_rx, sent, received, event_tx, pc, playback,
                 current_track, equalizer, ticks, peak, played, engine>>

\* sample_buffer_clone.lock(): the guard lives to the end of the callback.
CallbackLockBuffer ==
  /\ bench.op = "locks"
  /\ bench.callback.at = "lock_buffer"
  /\ bench.locks["cb_sample_buffer"] = "none"
  /\ bench' = [bench EXCEPT !.locks = Lock(@, "cb_sample_buffer", "callback"),
                            !.callback.at = "lock_flag"]
  /\ UNCHANGED <<caller, device, command_rx, sent, received, event_tx, pc, playback,
                 current_track, equalizer, ticks, peak, played, engine>>

\* is_playing_clone.lock(), with the buffer's guard held.
CallbackLockFlag ==
  /\ bench.op = "locks"
  /\ bench.callback.at = "lock_flag"
  /\ bench.locks["cb_is_playing"] = "none"
  /\ bench' = [bench EXCEPT !.locks = Lock(@, "cb_is_playing", "callback"),
                            !.callback.at = "read_flag"]
  /\ UNCHANGED <<caller, device, command_rx, sent, received, event_tx, pc, playback,
                 current_track, equalizer, ticks, peak, played, engine>>

\* The flag is copied out and its guard, a temporary, is dropped at the end
\* of the statement.
CallbackReadFlag ==
  /\ bench.op = "locks"
  /\ bench.callback.at = "read_flag"
  /\ bench' = [bench EXCEPT !.locks = Unlock(@, "cb_is_playing"),
                            !.callback = [at |-> "fill",
                                          playing |-> bench.output.cb_is_playing]]
  /\ UNCHANGED <<caller, device, command_rx, sent, received, event_tx, pc, playback,
                 current_track, equalizer, ticks, peak, played, engine>>

\* The callback fills its slice and returns, which drops the buffer's guard.
CallbackReturn ==
  /\ bench.op = "locks"
  /\ bench.callback.at = "fill"
  /\ \E n \in 1..MaxRequest :
       bench' = [bench EXCEPT !.output = CallbackFill(@, n).output,
                              !.locks = Unlock(@, "cb_sample_buffer"),
                              !.callback.at = "idle"]
  /\ UNCHANGED <<caller, device, command_rx, sent, received, event_tx, pc, playback,
                 current_track, equalizer, ticks, peak, played, engine>>

\* ------------------------------------------------------------------ an Equalizer on its own
\* trail: the calls made so far, in order; first: the equalizer before them.
EqBench(eq) ==
  [op |-> "eq", eq |-> eq, call |-> "new", before |-> eq, calls |-> 0,
   left |-> Zero, right |-> Zero, out |-> <<Zero, Zero>>, trail |-> <<>>, first |-> eq,
   arg |-> <<>>]
\* An equalizer that was enabled and has processed one pair.
UsedEqualizer(sample_rate) ==
  ProcessStereo(SetEnabled(EqualizerNew(sample_rate), TRUE),
                BenchSample(1), BenchSample(2)).eq
BenchInputs == {BenchSample(1), BenchSample(2)}
BenchGains == {<<0, 6>>, <<9, -20>>, <<NumBands, 6>>}
\* The slices set_all_gains is given: shorter and longer than the bands.

\* Equalizer::set_enabled is called.
EqSetEnabled ==
  /\ bench.op = "eq"
  /\ bench.calls < MaxCalls
  /\ \E enabled \in BOOLEAN :
       bench' = [bench EXCEPT !.call = "set_enabled", !.before = bench.eq,
                              !.calls = @ + 1, !.eq = SetEnabled(bench.eq, enabled),
                              !.trail = Append(@, IF enabled THEN "enable" ELSE "disable")]
  /\ UNCHANGED <<caller, device, command_rx, sent, received, event_tx, pc, playback,
                 current_track, equalizer, ticks, peak, played, engine>>

\* Equalizer::set_band_gain is called.
EqSetBandGain ==
  /\ bench.op = "eq"
  /\ bench.calls < MaxCalls
  /\ \E a \in BenchGains :
       bench' = [bench EXCEPT !.call = "set_band_gain", !.before = bench.eq,
                              !.calls = @ + 1, !.eq = SetBandGain(bench.eq, a[1], a[2]),
                              !.trail = Append(@, "set_band_gain"), !.arg = a]
  /\ UNCHANGED <<caller, device, command_rx, sent, received, event_tx, pc, playback,
                 current_track, equalizer, ticks, peak, played, engine>>

\* Equalizer::set_all_gains is called.
EqSetAllGains ==
  /\ bench.op = "eq"
  /\ bench.calls < MaxCalls
  /\ \E gains \in {<<3, -15>>, [i \in 1..(NumBands + 1) |-> 13]} :
       bench' = [bench EXCEPT !.call = "set_all_gains", !.before = bench.eq,
                              !.calls = @ + 1, !.eq = SetAllGains(bench.eq, gains),
                              !.trail = Append(@, "set_all_gains"), !.arg = gains]
  /\ UNCHANGED <<caller, device, command_rx, sent, received, event_tx, pc, playback,
                 current_track, equalizer, ticks, peak, played, engine>>

\* Equalizer::process_stereo is called.
EqProcessStereo ==
  /\ bench.op = "eq"
  /\ bench.calls < MaxCalls
  /\ Len(SelectSeq(bench.trail, LAMBDA c : c = "process_stereo")) < MaxPairs
  /\ \E left \in BenchInputs, right \in BenchInputs :
       LET p == ProcessStereo(bench.eq, left, right) IN
       bench' = [bench EXCEPT !.call = "process_stereo", !.before = bench.eq,
                              !.calls = @ + 1, !.left = left, !.right = right,
                              !.out = p.out, !.eq = p.eq,
                              !.trail = Append(@, "process_stereo")]
  /\ UNCHANGED <<caller, device, command_rx, sent, received, event_tx, pc, playback,
                 current_track, equalizer, ticks, peak, played, engine>>

\* ------------------------------------------------------------------ a SymphoniaPlayer on its own
\* The 44100 Hz the loop creates its equalizer with.
InitialSampleRate == 44100

\* The mono loop of apply_equalizer: each sample goes through as both left
\* and right, and the left output is kept.
RECURSIVE ProcessMono(_, _)
ProcessMono(eq, samples) ==
  IF samples = <<>>
    THEN [out |-> <<>>, eq |-> eq]
    ELSE LET p == ProcessStereo(eq, Head(samples), Head(samples))
             rest == ProcessMono(p.eq, Tail(samples))
         IN [out |-> <<p.out[1]>> \o rest.out, eq |-> rest.eq]

\* The stereo loop of apply_equalizer over samples.chunks_exact(2): the
\* pairs in order; a last sample without its pair is not visited.
RECURSIVE ProcessPairs(_, _)
ProcessPairs(eq, samples) ==
  IF Len(samples) < 2
    THEN [out |-> <<>>, eq |-> eq]
    ELSE LET p == ProcessStereo(eq, samples[1], samples[2])
             rest == ProcessPairs(p.eq, SubSeq(samples, 3, Len(samples)))
         IN [out |-> p.out \o rest.out, eq |-> rest.eq]

\* SymphoniaPlayer::apply_equalizer, with the equalizer's bands: the chunk as
\* decoded while disabled or with more than two channels.
PlayerApplyEqualizer(player, eq, samples) ==
  IF ~eq.enabled THEN [out |-> samples, eq |-> eq]
  ELSE IF player.channels = 1 THEN ProcessMono(eq, samples)
  ELSE IF player.channels = 2 THEN ProcessPairs(eq, samples)
  ELSE [out |-> samples, eq |-> eq]

\* apply_equalizer called on its own: the player's channel count (what the
\* file's header says, 2 when it does not say), a decoded chunk, and the
\* equalizer enabled or not.
ChunkBench(channels, samples, enabled) ==
  [op |-> "chunk", channels |-> channels, samples |-> samples,
   eq |-> SetEnabled(EqualizerNew(InitialSampleRate), enabled), res |-> None]

ApplyEqualizerCall ==
  /\ bench.op = "chunk"
  /\ bench.res = None
  /\ bench' = [bench EXCEPT !.res = Some(PlayerApplyEqualizer([channels |-> bench.channels],
                                                              bench.eq, bench.samples).out)]
  /\ UNCHANGED <<caller, device, command_rx, sent, received, event_tx, pc, playback,
                 current_track, equalizer, ticks, peak, played, engine>>

\* A player with the equalizer it shares, as load leaves them; trail: the
\* calls made so far.
PlayerBench(path, enabled) ==
  LET l == PlayerLoad(path, SetEnabled(EqualizerNew(InitialSampleRate), enabled))
  IN [op |-> "player", player |-> l.res.val, eq |-> l.eq, trail |-> <<>>,
      before |-> l.res.val, out |-> <<>>]

\* decode_next, the bands included.
PlayerDecodeCall ==
  /\ bench.op = "player"
  /\ Len(bench.trail) < MaxCalls
  /\ LET d == DecodeNext(bench.player, bench.eq)
         samples == IF IsOk(d.res) /\ IsSome(d.res.val) THEN d.res.val.val ELSE <<>>
         p == PlayerApplyEqualizer(bench.player, bench.eq, samples)
     IN bench' = [bench EXCEPT !.player = d.player, !.eq = p.eq, !.out = p.out,
                               !.before = bench.player,
                               !.trail = Append(@, "decode_next")]
  /\ UNCHANGED <<caller, device, command_rx, sent, received, event_tx, pc, playback,
                 current_track, equalizer, ticks, peak, played, engine>>

\* seek, which has the player's decoder and reader to work on.
PlayerSeekCall ==
  /\ bench.op = "player"
  /\ Len(bench.trail) < MaxCalls
  /\ \E target \in SeekTargets :
       LET r == PlayerSeek(bench.player, target)
       IN bench' = [bench EXCEPT !.player = r.player, !.before = bench.player,
                                 !.trail = Append(@, IF IsOk(r.res) THEN "seek" ELSE "seek failed")]
  /\ UNCHANGED <<caller, device, command_rx, sent, received, event_tx, pc, playback,
                 current_track, equalizer, ticks, peak, played, engine>>

\* ------------------------------------------------------------------ AudioCaptureBuffer
Min(a, b) == IF a <= b THEN a ELSE b

\* AudioCaptureBuffer::new
CaptureNew(buffer_size) ==
  [samples |-> [i \in 1..buffer_size |-> Zero], sample_rate |-> 44100, channels |-> 2]

\* An update that copies the input and leaves the rest as it was.
CaptureUpdateNoFill(buffer, samples, sample_rate, channels) ==
  LET copy_len == Min(Len(samples), Len(buffer.samples))
  IN [samples |-> [i \in 1..Len(buffer.samples) |->
                     IF i <= copy_len THEN samples[i] ELSE buffer.samples[i]],
      sample_rate |-> sample_rate, channels |-> channels]

\* AudioCaptureBuffer::update: rate and channels are stored, the first
\* copy_len samples copied, the rest filled with 0.0.
CaptureUpdate(buffer, samples, sample_rate, channels) ==
  LET copy_len == Min(Len(samples), Len(buffer.samples))
      copied == [i \in 1..Len(buffer.samples) |->
                   IF i <= copy_len THEN samples[i] ELSE buffer.samples[i]]
      filled == [i \in 1..Len(buffer.samples) |->
                   IF i > copy_len THEN Zero ELSE copied[i]]
  IN [samples |-> filled, sample_rate |-> sample_rate, channels |-> channels]

\* The buffer exercised on its own.  Inputs are chunks of up to MaxInput
\* samples at a file's rate or the device's; the buffer is new, or has been
\* updated before.
CaptureInputs ==
  UNION {[1..n -> {BenchSample(1), BenchSample(2)}] : n \in 0..MaxInput}
CaptureRates == {FileTable["a"].sample_rate, DeviceDefault.sample_rate}
CaptureBuffers ==
  {CaptureNew(size) : size \in 0..MaxCapture}
    \cup {CaptureUpdate(CaptureNew(size), samples, rate, channels) :
            size \in 0..MaxCapture, samples \in CaptureInputs,
            rate \in CaptureRates, channels \in 1..MaxChannels}
CaptureBench(buffer) ==
  [op |-> "capture", buffer |-> buffer, before |-> buffer, called |-> FALSE,
   samples |-> <<>>, sample_rate |-> 0, channels |-> 0]

CaptureUpdateCall ==
  /\ bench.op = "capture"
  /\ ~bench.called
  /\ \E samples \in CaptureInputs, rate \in CaptureRates, channels \in 1..MaxChannels :
       bench' = [bench EXCEPT !.buffer = CaptureUpdate(bench.buffer, samples, rate, channels),
                              !.called = TRUE, !.samples = samples,
                              !.sample_rate = rate, !.channels = channels]
  /\ UNCHANGED <<caller, device, command_rx, sent, received, event_tx, pc, playback,
                 current_track, equalizer, ticks, peak, played, engine>>

\* ------------------------------------------------------------------ AudioEngine
\* AudioEngine::new: the thread is spawned and its handle kept.  event_rx
\* counts the events the caller has taken from the event channel, which
\* holds those of event_tx after them.
EngineNew ==
  [phase |-> "running", thread_handle |-> Some("audio"), joins |-> 0, event_rx |-> 0]

\* AudioEngine::try_recv_event: the oldest event not yet taken, if any (None,
\* which changes nothing, is left out).
TryRecvEvent ==
  /\ engine.phase = "running"
  /\ engine.event_rx < Len(event_tx)
  /\ engine' = [engine EXCEPT !.event_rx = @ + 1]
  /\ UNCHANGED <<caller, device, command_rx, sent, received, event_tx, pc, playback,
                 current_track, equalizer, ticks, peak, played, bench>>

\* Sender::send of a Shutdown by the engine itself: the command is queued
\* unless the receiver is gone (the thread has returned), when send fails.
EngineSendsShutdown ==
  IF pc = "exited"
    THEN UNCHANGED <<command_rx, sent>>
    ELSE LET cmd == [kind |-> "Shutdown", arg |-> 0, id |-> Len(sent) + 1] IN
         /\ command_rx' = Append(command_rx, cmd)
         /\ sent' = Append(sent, cmd)

\* thread_handle.take() followed by join: the handle is gone and the join
\* is counted.
TakeAndJoin(e) == [e EXCEPT !.thread_handle = None, !.joins = e.joins + 1]

\* AudioEngine::shutdown, up to the join: Shutdown is sent; if the send
\* fails shutdown returns the error at once and the engine is dropped.
EngineShutdown ==
  /\ engine.phase = "running"
  /\ EngineSendsShutdown
  /\ engine' = [engine EXCEPT !.phase = IF pc = "exited" THEN "drop" ELSE "shutdown"]
  /\ UNCHANGED <<caller, device, received, event_tx, pc, playback, current_track,
                 equalizer, ticks, peak, played, bench>>

\* The join of AudioEngine::shutdown returns once the thread has returned;
\* shutdown returns and the engine (its handle taken) is dropped: the send
\* of Drop::drop fails, the thread being gone.
EngineShutdownJoin ==
  /\ engine.phase = "shutdown"
  /\ IsSome(engine.thread_handle)
  /\ pc = "exited"
  /\ engine' = [TakeAndJoin(engine) EXCEPT !.phase = "drop"]
  /\ UNCHANGED <<caller, device, command_rx, sent, received, event_tx, pc, playback,
                 current_track, equalizer, ticks, peak, played, bench>>

\* The caller lets the engine go out of scope: Drop::drop sends Shutdown.
EngineDrop ==
  /\ engine.phase = "running"
  /\ EngineSendsShutdown
  /\ engine' = [engine EXCEPT !.phase = "drop"]
  /\ UNCHANGED <<caller, device, received, event_tx, pc, playback, current_track,
                 equalizer, ticks, peak, played, bench>>

\* The rest of Drop::drop: the join, if the handle is still there, returns
\* once the thread has returned.
EngineDropJoin ==
  /\ engine.phase = "drop"
  /\ IF IsSome(engine.thread_handle)
       THEN /\ pc = "exited"
            /\ engine' = [TakeAndJoin(engine) EXCEPT !.phase = "dropped"]
       ELSE engine' = [engine EXCEPT !.phase = "dropped"]
  /\ UNCHANGED <<caller, device, command_rx, sent, received, event_tx, pc, playback,
                 current_track, equalizer, ticks, peak, played, bench>>


\* ------------------------------------------------------------------ specifications
InitCommon ==
  /\ command_rx = <<>>
  /\ sent = <<>>
  /\ received = <<>>
  /\ event_tx = <<>>
  /\ pc = "recv"
  /\ playback = None
  /\ current_track = None
  /\ equalizer = Settings(EqualizerNew(InitialSampleRate))
  /\ ticks = 0
  /\ peak = [decoders |-> 0, outputs |-> 0]
  /\ played = <<>>
  /\ engine = EngineNew

NoBench == [op |-> "none"]

Init ==
  /\ caller = "transport"
  /\ device \in DeviceStates
  /\ bench = NoBench
  /\ InitCommon

InitScenario ==
  /\ caller = "scenario"
  /\ device \in DeviceStates
  /\ bench = NoBench
  /\ InitCommon

\* A session: the caller plays tracks and at any time shuts the engine down
\* or drops it; the requested output configuration is available.
InitSession ==
  /\ caller = "session"
  /\ device = "exact"
  /\ bench = NoBench
  /\ InitCommon

Next == SendCommand \/ LoopCommand \/ LoopFeed \/ HardwareCallback

Spec == Init /\ [][Next]_vars

SpecScenario == InitScenario /\ [][Next]_vars

\* The caller sets the equalizer while it plays the valid file.
InitEqualizer ==
  /\ caller = "equalizer"
  /\ device = "exact"
  /\ bench = NoBench
  /\ InitCommon

SpecEqualizer == InitEqualizer /\ [][Next]_vars

\* The caller plays long and faulty tracks and seeks in them.
InitDecode ==
  /\ caller = "decode"
  /\ device = "exact"
  /\ bench = NoBench
  /\ InitCommon

SpecDecode == InitDecode /\ [][Next]_vars

\* The caller steps through its playlist with Next and Previous.
InitSkip ==
  /\ caller = "skip"
  /\ device = "exact"
  /\ bench = NoBench
  /\ InitCommon

SpecSkip == InitSkip /\ [][Next]_vars

\* The loop with its clock.
InitClock ==
  /\ caller = "clock"
  /\ device = "exact"
  /\ bench = [op |-> "clock", now |-> 0, last_position_update |-> 0, position_sent |-> <<>>]
  /\ InitCommon

NextClock == SendCommand \/ LoopCommand \/ LoopFeedTimed \/ HardwareCallback

SpecClock == InitClock /\ [][NextClock]_vars

\* The same caller, polling the event channel when it pleases.
NextPolling == Next \/ TryRecvEvent

SpecPolling == InitDecode /\ [][NextPolling]_vars

\* A CpalOutput exercised on its own.
InitSink ==
  /\ caller = "none"
  /\ device = "exact"
  /\ bench \in {SinkBench(output) : output \in Sinks}
  /\ InitCommon

NextSink == SinkCallback \/ SinkNeedsData

SpecSink == InitSink /\ [][NextSink]_vars

\* The control thread and the callback thread on the locks of a new output;
\* each thread that can take a step eventually takes one.
InitLocks ==
  /\ caller = "none"
  /\ device = "exact"
  /\ bench = LockBench(OutputOf(MaxRate, MaxChannels))
  /\ InitCommon

NextLocks ==
  \/ ControlCall \/ ControlLock \/ ControlUnlock
  \/ CallbackInvoke \/ CallbackLockBuffer \/ CallbackLockFlag \/ CallbackReadFlag
  \/ CallbackReturn

SpecLocks ==
  /\ InitLocks
  /\ [][NextLocks]_vars
  /\ WF_vars(ControlCall \/ ControlLock \/ ControlUnlock)
  /\ WF_vars(CallbackInvoke \/ CallbackLockBuffer \/ CallbackLockFlag
                \/ CallbackReadFlag \/ CallbackReturn)

\* CpalOutput::new called on its own: bench holds the arguments, the platform
\* and, once called, the result.
OutputBench(sample_rate, channels, dev) ==
  [op |-> "output_new", requested_sample_rate |-> sample_rate,
   requested_channels |-> channels, platform |-> dev, res |-> None]

OutputNewCall ==
  /\ bench.op = "output_new"
  /\ bench.res = None
  /\ bench' = [bench EXCEPT !.res = Some(OutputNew(bench.requested_sample_rate,
                                                   bench.requested_channels,
                                                   bench.platform))]
  /\ UNCHANGED <<caller, device, command_rx, sent, received, event_tx, pc, playback,
                 current_track, equalizer, ticks, peak, played, engine>>

InitOutput ==
  /\ caller = "none"
  /\ device = "exact"
  /\ bench \in {OutputBench(rate, channels, dev) :
                   rate \in 1..MaxRate, channels \in 1..MaxChannels, dev \in Platforms}
  /\ InitCommon

NextOutput == OutputNewCall

SpecOutput == InitOutput /\ [][NextOutput]_vars

InitCapture ==
  /\ caller = "none"
  /\ device = "exact"
  /\ bench \in {CaptureBench(buffer) : buffer \in CaptureBuffers}
  /\ InitCommon

NextCapture == CaptureUpdateCall

SpecCapture == InitCapture /\ [][NextCapture]_vars

\* A SymphoniaPlayer exercised on its own with the equalizer it shares.
InitPlayer ==
  /\ caller = "none"
  /\ device = "exact"
  /\ bench \in {PlayerBench(path, enabled) : path \in {"a", "c", "r"}, enabled \in BOOLEAN}
  /\ InitCommon

NextPlayer == PlayerDecodeCall \/ PlayerSeekCall

SpecPlayer == InitPlayer /\ [][NextPlayer]_vars

\* Chunks of any length up to MaxInput, for one channel up to one more than
\* the two the equalizer handles.
InitChunk ==
  /\ caller = "none"
  /\ device = "exact"
  /\ bench \in {ChunkBench(channels, samples, enabled) :
                   channels \in 1..(MaxChannels + 1), samples \in CaptureInputs,
                   enabled \in BOOLEAN}
  /\ InitCommon

NextChunk == ApplyEqualizerCall

SpecChunk == InitChunk /\ [][NextChunk]_vars

\* An Equalizer exercised on its own, created as the loop creates its own:
\* new, or already used.
InitEqBench ==
  /\ caller = "none"
  /\ device = "exact"
  /\ bench \in {EqBench(EqualizerNew(InitialSampleRate)),
                EqBench(UsedEqualizer(InitialSampleRate))}
  /\ InitCommon

NextEqBench == EqSetEnabled \/ EqSetBandGain \/ EqProcessStereo

SpecEqBench == InitEqBench /\ [][NextEqBench]_vars

\* An Equalizer whose gains are set, one band or all at once.
NextGains == EqSetEnabled \/ EqSetBandGain \/ EqSetAllGains

SpecGains == InitEqBench /\ [][NextGains]_vars

NextSession ==
  \/ SendCommand
  \/ LoopCommand
  \/ LoopFeedQuiet
  \/ HardwareCallback
  \/ EngineShutdown
  \/ EngineShutdownJoin
  \/ EngineDrop
  \/ EngineDropJoin

\* The loop thread keeps running (it sleeps 1 ms per iteration and takes no
\* lock it could wait on for ever), the platform keeps calling the output
\* callback, and a caller inside shutdown or drop goes on as soon as its
\* join returns; the caller is not bound to send anything.
SpecSession ==
  /\ InitSession
  /\ [][NextSession]_vars
  /\ WF_vars(LoopCommand \/ LoopFeedQuiet)
  /\ WF_vars(HardwareCallback)
  /\ WF_vars(EngineShutdownJoin \/ EngineDropJoin)

\* ------------------------------------------------------------------ reading the histories
Last(seq) == seq[Len(seq)]
Types(events) == [i \in 1..Len(events) |-> events[i].type]
\* The events other than Position and VisualizationData.
StateEvents(events) ==
  SelectSeq(events, LAMBDA e : e.type \notin {"Position", "VisualizationData"})
Count(events, type) == Cardinality({i \in 1..Len(events) : events[i].type = type})
\* In a step: the events it sent, and whether it is the loop receiving a
\* command of the given kind.
NewEvents == SubSeq(event_tx', Len(event_tx) + 1, Len(event_tx'))
Receives(kind) == received' # received /\ Last(received').kind = kind
Playing == IsSome(playback) /\ ~playback.val.is_paused
Paused == IsSome(playback) /\ playback.val.is_paused
Idle == ~IsSome(playback)

\* ------------------------------------------------------------------ C1
\* C1: the loop receives the commands in exactly the order they were sent,
\* each at most once (what it has received is a prefix of what was sent, and
\* the rest is what waits in the channel), and a loop iteration receives at
\* most one command: a receive happens only in the first half of an
\* iteration and ends that half.
CommandsAppliedInFifoOrder ==
  [][/\ received' = SubSeq(sent', 1, Len(received'))
     /\ received' \o command_rx' = sent'
     /\ Len(received') <= Len(received) + 1
     /\ received' # received => pc = "recv" /\ pc' \in {"feed", "exited"}]_vars

\* One command has been received while two more wait in the channel.
CommandsQueuedBehindReceived ==
  Len(received) >= 1 /\ Len(command_rx) >= 2

\* ------------------------------------------------------------------ C2
ScenarioEvents == <<"TrackLoaded", "Playing", "Paused", "Playing", "Stopped">>
ScenarioApplied ==
  caller = "scenario" /\ device # "none" /\ Len(received) = Len(Scenario)

\* C2 as stated: once [Play(a), Pause, Resume, Stop] has been applied against
\* the valid file with a working device, the events other than Position and
\* VisualizationData are TrackLoaded, Playing, Paused, Playing, Stopped.
ScenarioYieldsCausalOrder ==
  ScenarioApplied => Types(StateEvents(event_tx)) = ScenarioEvents

\* C2 as amended: the same, provided the track has not reached its end of
\* stream (Finished) before the Stop is applied.
ScenarioYieldsCausalOrderUnlessFinished ==
  (ScenarioApplied /\ Count(event_tx, "Finished") = 0)
    => Types(StateEvents(event_tx)) = ScenarioEvents

\* The scenario has run through without the track ending, and Position
\* events were interleaved.
ScenarioRanWithPositions ==
  /\ ScenarioApplied
  /\ Count(event_tx, "Finished") = 0
  /\ Count(event_tx, "Position") >= 2

\* ------------------------------------------------------------------ C3
IsLoadResult(e) ==
  e.by >= 1 /\ received[e.by].kind = "Play" /\ e.type \in {"Playing", "Error"}
TrackLoadedBefore(j) ==
  \E i \in 1..(j - 1) :
    event_tx[i].type = "TrackLoaded" /\ event_tx[i].by = event_tx[j].by

\* C3 as stated: the Playing or Error event a Play command produces is
\* preceded by the TrackLoaded event of that same load.
TrackLoadedPrecedesLoadResult ==
  \A j \in 1..Len(event_tx) : IsLoadResult(event_tx[j]) => TrackLoadedBefore(j)

\* C3 as amended: the Playing event, and the Error event of a failed decoder
\* or output construction, are preceded by that load's TrackLoaded; the Error
\* event of a failed metadata probe comes with no TrackLoaded for that load.
TrackLoadedPrecedesUnlessProbeFails ==
  \A j \in 1..Len(event_tx) :
    IsLoadResult(event_tx[j]) =>
      IF event_tx[j].type = "Error" /\ event_tx[j].arg = "Failed to load track"
        THEN \A i \in 1..Len(event_tx) :
               ~(event_tx[i].type = "TrackLoaded" /\ event_tx[i].by = event_tx[j].by)
        ELSE TrackLoadedBefore(j)

\* A load that failed after its metadata was probed: TrackLoaded, then Error,
\* both of the second Play, after a first Play that succeeded.
LoadFailedAfterTrackLoaded ==
  /\ Len(event_tx) >= 4
  /\ Last(event_tx).type = "Error"
  /\ Last(event_tx).by = 2
  /\ event_tx[Len(event_tx) - 1].type = "TrackLoaded"
  /\ event_tx[Len(event_tx) - 1].by = 2
  /\ event_tx[2].type = "Playing"

\* ------------------------------------------------------------------ C4
PauseStep ==
  Receives("Pause") =>
    IF Playing
      THEN /\ IsSome(playback') /\ playback'.val.is_paused
           /\ ~playback'.val.output.is_playing
           /\ playback'.val.player = playback.val.player
           /\ Types(NewEvents) = <<"Paused">>
      ELSE playback' = playback /\ current_track' = current_track /\ NewEvents = <<>>
ResumeStep ==
  Receives("Resume") =>
    IF Paused
      THEN /\ IsSome(playback') /\ ~playback'.val.is_paused
           /\ playback'.val.output.is_playing
           /\ playback'.val.player = playback.val.player
           /\ Types(NewEvents) = <<"Playing">>
      ELSE playback' = playback /\ current_track' = current_track /\ NewEvents = <<>>

\* C4: Pause while Playing sets the paused flag and sends exactly one Paused
\* event; Resume while Paused clears it and sends exactly one Playing event;
\* Pause while Paused or Idle, and Resume while Playing or Idle, change no
\* state and send no event.
PauseResumeToggle == [][PauseStep /\ ResumeStep]_vars

\* Play, Pause, Pause have been applied: the first Pause paused the track and
\* sent the one Paused event, the second found it paused.
PausedTwice ==
  /\ Len(received) = 3
  /\ received[1].kind = "Play" /\ received[2].kind = "Pause" /\ received[3].kind = "Pause"
  /\ Paused
  /\ Count(event_tx, "Paused") = 1

\* ------------------------------------------------------------------ C5
StopStep ==
  Receives("Stop") =>
    playback' = None /\ current_track' = None /\ Types(NewEvents) = <<"Stopped">>
\* A Position, VisualizationData or Finished event that follows a Stopped
\* event is about a track loaded by a Play received after that Stop.
NoEventOfStoppedTrack ==
  \A i, j \in 1..Len(event_tx) :
    (/\ i < j
     /\ event_tx[i].type = "Stopped"
     /\ event_tx[j].type \in {"Position", "VisualizationData", "Finished"})
      => event_tx[j].load > event_tx[i].by

\* C5: Stop, in any state, drops the playback state and the current track,
\* leaves the loop Idle and sends exactly one Stopped event, after which no
\* Position, VisualizationData or Finished event of the stopped track is sent.
StopDropsPlayback == [][StopStep /\ NoEventOfStoppedTrack']_vars

\* A playing track that had reported its position was stopped, and the loop
\* has since run its decode/report half.
StoppedWhilePlaying ==
  /\ event_tx # <<>>
  /\ Last(event_tx).type = "Stopped"
  /\ Last(event_tx).load >= 1
  /\ Count(event_tx, "Position") >= 1
  /\ pc = "recv"

\* ------------------------------------------------------------------ C6
PlayStep ==
  (Receives("Play") /\ IsSome(playback')) =>
    /\ ~playback'.val.is_paused
    /\ playback'.val.output.is_playing
    /\ playback'.val.player.load = Last(received').id

\* C6: never more than one decoder and one output alive, also while a Play
\* replaces a track; and a Play that succeeds leaves its own track unpaused.
AtMostOneDecoderAndOutput ==
  [][peak'.decoders <= 1 /\ peak'.outputs <= 1 /\ PlayStep]_vars

\* A Play has replaced a paused track.
PlayReplacedPausedTrack ==
  /\ Len(received) = 3
  /\ received[2].kind = "Pause" /\ received[3].kind = "Play"
  /\ Count(event_tx, "Paused") = 1
  /\ IsSome(playback)
  /\ playback.val.player.load = 3

\* ------------------------------------------------------------------ C7
\* The load of path fails at some step: open or probe, decoder, or output.
LoadFails(path) ==
  ~FileTable[path].probes \/ ~FileTable[path].codec \/ device = "none"
FailedLoadStep ==
  (Receives("Play") /\ LoadFails(Last(received').arg)) =>
    /\ playback' = None
    /\ Count(NewEvents, "Error") = 1
    /\ Last(NewEvents).type = "Error"
    /\ Count(NewEvents, "Playing") = 0

\* C7: a Play whose load fails at any step sends an Error event and no
\* Playing event, and leaves the loop Idle, with no decoder and no output,
\* also when a track was playing before.
FailedLoadReturnsToIdle == [][FailedLoadStep]_vars

\* A track was playing when a Play of the unreadable file failed.
LoadFailedWhilePlaying ==
  /\ Len(received) = 2
  /\ received[2].kind = "Play" /\ received[2].arg = "x"
  /\ Len(event_tx) >= 3
  /\ event_tx[2].type = "Playing"
  /\ Last(event_tx).type = "Error"
  /\ Idle

\* ------------------------------------------------------------------ C8
\* C8 as stated: right after an Error event the loop is Idle, with no decoder,
\* no output stream and no current-track record.
IdleAfterError ==
  (event_tx # <<>> /\ Last(event_tx).type = "Error")
    => (playback = None /\ current_track = None)

\* ------------------------------------------------------------------ C9
SeekSucceeds == SeekOutcome(playback.val.player, Last(received').arg) # "fail"
SeekStep ==
  Receives("Seek") =>
    IF IsSome(playback)
      THEN SeekSucceeds =>
             /\ IsSome(playback')
             /\ playback'.val.is_paused = playback.val.is_paused
             /\ playback'.val.output.is_playing = playback.val.output.is_playing
      ELSE playback' = playback /\ current_track' = current_track /\ NewEvents = <<>>

\* C9: a successful Seek leaves the loop Paused if it was Paused and Playing
\* if it was Playing; a Seek while Idle changes nothing and sends no event.
SeekPreservesPauseState == [][SeekStep]_vars

\* A seek succeeded on a paused track, which is still paused.
SeekWhilePaused ==
  /\ Len(received) = 3
  /\ received[2].kind = "Pause" /\ received[3].kind = "Seek"
  /\ Paused
  /\ playback.val.player.epoch = 1

\* ------------------------------------------------------------------ C10
Buffered(output) == output.sample_buffer \o output.cb_sample_buffer

\* C10: every sample waiting in the output was decoded after the last seek
\* (the seek cleared the buffer before anything was written again), and the
\* callback never puts out a sample decoded before a seek after one decoded
\* after it.
NoStaleSamplesAfterSeek ==
  /\ IsSome(playback) =>
       \A i \in 1..Len(Buffered(playback.val.output)) :
         Buffered(playback.val.output)[i].ep = playback.val.player.epoch
  /\ \A i, j \in 1..Len(played) :
       (i < j /\ played[i].load = played[j].load) => played[i].ep <= played[j].ep

\* Samples were buffered, a seek cleared them, and a packet decoded after
\* the seek is in the buffer.
PostSeekChunkBuffered ==
  /\ IsSome(playback)
  /\ playback.val.player.epoch >= 1
  /\ playback.val.output.sample_buffer # <<>>
  /\ ticks >= 2

\* ------------------------------------------------------------------ C11
\* The decoder of the playing track would report the end of its stream, and
\* the output asks for data.
AtEndOfStream ==
  /\ Playing
  /\ NeedsData(playback.val.output)
  /\ NextPacket(playback.val.player) = "eof"
FinishedStep ==
  /\ (pc = "feed" /\ pc' = "recv" /\ AtEndOfStream)
       => /\ playback' = None
          /\ current_track' = None
          /\ event_tx' # event_tx
          /\ Last(event_tx').type = "Finished"
          /\ Last(event_tx').load = LoadOf(playback)
  /\ \A j \in (Len(event_tx) + 1)..Len(event_tx') :
       event_tx'[j].type = "Finished" =>
         /\ pc = "feed" /\ AtEndOfStream
         /\ j = Len(event_tx')
         /\ \A i \in 1..Len(event_tx) :
              ~(event_tx[i].type = "Finished" /\ event_tx[i].load = event_tx'[j].load)

\* C11: the feed half of an iteration that finds the playing track at its
\* end of stream drops the playback state and the current track and sends
\* one Finished event, the last of the iteration; no other step sends
\* Finished (none while Idle or Paused), and no load is reported Finished
\* twice.
FinishedOnceAtEndOfStream == [][FinishedStep]_vars

\* A track has played to its end: Finished is the last event sent, and the
\* loop is idle with no current track.
TrackPlayedToItsEnd ==
  /\ Count(event_tx, "Finished") = 1
  /\ Last(event_tx).type = "Finished"
  /\ Idle
  /\ current_track = None

\* ------------------------------------------------------------------ C12
\* C12: a track that plays while no command waits is eventually reported
\* Finished, unless a further command arrives first (the loop and the
\* callback being scheduled fairly).
PlayingLeadsToFinished ==
  (Playing /\ command_rx = <<>>)
    ~> (\/ command_rx # <<>>
        \/ event_tx # <<>> /\ Last(event_tx).type = "Finished")

\* ------------------------------------------------------------------ C13
ShutdownsIn(seq) == {i \in 1..Len(seq) : seq[i].kind = "Shutdown"}
FirstShutdown(seq) == CHOOSE i \in ShutdownsIn(seq) : \A j \in ShutdownsIn(seq) : i <= j
\* The loop has returned exactly when it has received a Shutdown, which is
\* then the last command it received: it has applied every command sent
\* before the first Shutdown and none sent after it, and holds no playback
\* state and no current track.
ExitedOnShutdown ==
  /\ pc = "exited" <=> ShutdownsIn(received) # {}
  /\ ShutdownsIn(received) \subseteq {Len(received)}
  /\ pc = "exited" =>
       /\ received = SubSeq(sent, 1, FirstShutdown(sent))
       /\ playback = None
       /\ current_track = None
\* The engine joins the thread at most once, after the thread has returned,
\* and has sent (or found already sent) a Shutdown before it waits.
JoinedOnce ==
  /\ engine.joins <= 1
  /\ engine.joins = 1 <=> engine.thread_handle = None
  /\ engine.joins = 1 => pc = "exited"
  /\ engine.phase # "running" => ShutdownsIn(sent) # {}
  /\ engine.phase = "dropped" => engine.joins = 1

\* C13: Shutdown ends the loop from any state: the loop has returned exactly
\* when it has received a Shutdown, having applied all that was sent before
\* it and holding nothing; once returned it applies no command and sends no
\* event; shutdown and drop send Shutdown before they join, join at most
\* once, and their join returns: a caller inside either gets out.
ShutdownTerminates ==
  /\ [](ExitedOnShutdown /\ JoinedOnce)
  /\ [][pc = "exited" => pc' = "exited" /\ received' = received /\ event_tx' = event_tx]_vars
  /\ (engine.phase \in {"shutdown", "drop"}) ~> (engine.phase = "dropped")

\* The engine has been dropped after one join, the loop having received a
\* Shutdown behind other commands while a later command stays in the channel.
DroppedWithCommandLeft ==
  /\ engine.phase = "dropped"
  /\ engine.joins = 1
  /\ Len(received) >= 2
  /\ command_rx # <<>>

\* ------------------------------------------------------------------ C14
\* C14: the queue the hardware callback pops from is the queue
\* write_samples fills: what has been written and neither played nor
\* cleared is what the callback will pop, in that order.
CallbackReadsWrittenQueue ==
  IsSome(playback) =>
    playback.val.output.cb_sample_buffer = playback.val.output.sample_buffer

\* ------------------------------------------------------------------ C15
\* C15: the flag the hardware callback reads is the flag pause() and play()
\* set, so a paused output has a callback that puts out silence and pops
\* nothing.
CallbackReadsPauseFlag ==
  IsSome(playback) =>
    playback.val.output.cb_is_playing = playback.val.output.is_playing

\* ------------------------------------------------------------------ C16
Zeros(n) == [i \in 1..n |-> Silence]
CallbackRan == bench.op = "sink" /\ bench.call = "callback"
\* C16: a callback asked for n samples writes exactly n: the samples at the
\* front of its queue, as many as there are up to n, which it removes, and
\* zeros for the rest; while its flag says paused it writes n zeros and
\* removes nothing.  Against an empty queue it writes n zeros.
CallbackFillsRequest ==
  CallbackRan =>
    LET queue == bench.before.cb_sample_buffer
        left == bench.output.cb_sample_buffer
        popped == Len(queue) - Len(left)
    IN /\ Len(bench.data) = bench.n
       /\ popped >= 0 /\ popped <= bench.n
       /\ bench.data = SubSeq(queue, 1, popped) \o Zeros(bench.n - popped)
       /\ left = SubSeq(queue, popped + 1, Len(queue))
       /\ popped < bench.n => (left = <<>> \/ ~bench.before.cb_is_playing)
       /\ ~bench.before.cb_is_playing => popped = 0
       /\ queue = <<>> => bench.data = Zeros(bench.n)

\* The most samples were asked of a playing callback whose queue is empty.
ZerosFromEmptyQueue ==
  /\ CallbackRan
  /\ bench.n = MaxRequest
  /\ bench.before.cb_is_playing
  /\ bench.before.cb_sample_buffer = <<>>
  /\ bench.data = Zeros(MaxRequest)

\* ------------------------------------------------------------------ C17
\* C17: needs_data() answers true exactly when four times one more than the
\* buffered sample count is at most sample_rate * channels, that is, when
\* the count is below sample_rate * channels / 4 rounded down.
NeedsDataBelowQuarterSecond ==
  (bench.op = "sink" /\ bench.call = "needs_data") =>
    LET output == bench.before IN
    /\ bench.needs <=>
         4 * (Len(output.sample_buffer) + 1) <= output.sample_rate * output.channels
    /\ bench.needs <=>
         Len(output.sample_buffer) < (output.sample_rate * output.channels) \div 4
    /\ bench.output = output

\* needs_data() answered false with the buffer exactly at the mark, where
\* the product of rate and channels is no multiple of four.
NoDataNeededAtMark ==
  /\ bench.op = "sink" /\ bench.call = "needs_data"
  /\ ~bench.needs
  /\ (bench.before.sample_rate * bench.before.channels) % 4 # 0
  /\ Len(bench.before.sample_buffer) = (bench.before.sample_rate * bench.before.channels) \div 4
  /\ Len(bench.before.sample_buffer) > 0

\* ------------------------------------------------------------------ C18
LowWaterMark(output) == (output.sample_rate * output.channels) \div 4
\* The longest chunk one decode_next of this player returns.
LargestChunk(player) == Len(Packet(player, equalizer))
\* C18: the loop writes a chunk only when needs_data() is true, so the
\* output never holds more than one sample less than its low-water mark
\* plus the largest chunk, whatever loop iterations and callbacks have run.
BufferedWithinBackpressureBound ==
  IsSome(playback) =>
    BufferLen(playback.val.output)
      <= (LowWaterMark(playback.val.output) - 1) + LargestChunk(playback.val.player)

\* Backpressure at work: the track has packets left, the output holds its
\* low-water mark and the loop has stopped decoding.
DecoderHeldBack ==
  /\ Playing
  /\ pc = "recv"
  /\ NextPacket(playback.val.player) = "audio"
  /\ ~NeedsData(playback.val.output)
  /\ BufferLen(playback.val.output) = LowWaterMark(playback.val.output)

\* ------------------------------------------------------------------ C19
\* C19: whatever gains have been attempted, each of the ten stored gains is
\* a number between -12 and +12.
StoredGainsWithinLimits ==
  /\ Len(equalizer.gains) = NumBands
  /\ \A i \in 1..NumBands :
       /\ equalizer.gains[i] # NaN
       /\ -GainLimit <= equalizer.gains[i]
       /\ equalizer.gains[i] <= GainLimit

\* ------------------------------------------------------------------ C20
StateOf(band) ==
  <<band.x1_l, band.x2_l, band.y1_l, band.y2_l, band.x1_r, band.x2_r, band.y1_r, band.y2_r>>
\* C20: process_stereo(l, r) on a disabled equalizer returns (l, r) itself,
\* whatever the gains, and changes nothing in the equalizer: no band's
\* filter state, coefficients or gain.
DisabledProcessIsIdentity ==
  (bench.op = "eq" /\ bench.call = "process_stereo" /\ ~bench.before.enabled) =>
    /\ bench.out = <<bench.left, bench.right>>
    /\ \A i \in 1..NumBands : StateOf(bench.eq.bands[i]) = StateOf(bench.before.bands[i])
    /\ bench.eq = bench.before

\* A pair was processed by a disabled equalizer whose first band is set to
\* +6 dB.
ProcessedWhileDisabledWithGain ==
  /\ bench.op = "eq" /\ bench.call = "process_stereo"
  /\ ~bench.before.enabled
  /\ bench.before.gains[1] = 6
  /\ bench.left # bench.right

\* ------------------------------------------------------------------ C21
ZeroState == <<Zero, Zero, Zero, Zero, Zero, Zero, Zero, Zero>>
\* A freshly constructed equalizer given these gains and enabled.
FreshEnabled(gains, sample_rate) ==
  SetEnabled(SetAllGains(EqualizerNew(sample_rate), gains), TRUE)
EndsWith(trail, calls) ==
  /\ Len(trail) >= Len(calls)
  /\ SubSeq(trail, Len(trail) - Len(calls) + 1, Len(trail)) = calls
\* C21: set_enabled(false) leaves the filter state of all ten bands zero,
\* and a pair processed right after disable(); enable() comes out as it
\* does from a freshly constructed equalizer of the same gains and sample
\* rate, whatever was processed before.
ReEnableHasNoMemory ==
  bench.op = "eq" =>
    /\ EndsWith(bench.trail, <<"disable">>) =>
         \A i \in 1..NumBands : StateOf(bench.eq.bands[i]) = ZeroState
    /\ EndsWith(bench.trail, <<"disable", "enable", "process_stereo">>) =>
         bench.out = ProcessStereo(FreshEnabled(bench.before.gains, bench.before.sample_rate),
                                   bench.left, bench.right).out

\* An equalizer that had processed a pair while enabled was disabled,
\* enabled again and has processed another pair.
ProcessedAfterReEnable ==
  /\ bench.op = "eq"
  /\ bench.trail = <<"disable", "enable", "process_stereo">>
  /\ bench.first.enabled
  /\ bench.first.bands[1].x1_l # Zero
  /\ bench.eq.bands[1].x1_l = bench.left
  /\ bench.eq.bands[1].x2_l = Zero

\* ------------------------------------------------------------------ C22
EqualizerKinds ==
  {"SetEqualizerEnabled", "SetEqualizerBand", "SetEqualizerBands", "ResetEqualizer"}
\* The loop receives an equalizer command.
EqualizerStep ==
  (received' # received /\ Last(received').kind \in EqualizerKinds) =>
    /\ Len(NewEvents) = 1
    /\ NewEvents[1].type = "EqualizerUpdated"
    /\ NewEvents[1].arg = <<equalizer'.enabled, equalizer'.gains>>
    /\ Len(equalizer'.gains) = NumBands
    /\ playback' = playback
    /\ current_track' = current_track
    /\ (Last(received').kind = "SetEqualizerBand" /\ Last(received').arg = <<0, 6>>) =>
         /\ equalizer'.gains[1] = 6
         /\ equalizer'.enabled = equalizer.enabled
\* The loop feeds the output while the equalizer is disabled: what it writes
\* has not been through the bands.
UnequalizedStep ==
  (pc = "feed" /\ Playing /\ ~equalizer.enabled /\ IsSome(playback')) =>
    \A i \in (BufferLen(playback.val.output) + 1)..BufferLen(playback'.val.output) :
      ~playback'.val.output.sample_buffer[i].eq

\* C22: each equalizer command, whatever the playback state, sends exactly
\* one EqualizerUpdated carrying the enabled flag and the ten gains as they
\* are after the command, and leaves the playback state (pause flag, decoder,
\* output) and the current track as they were; SetEqualizerBand(0, 6) sets
\* the first gain to 6 without enabling, and samples written while the
\* equalizer is disabled are not equalized.
EqualizerCommandReportsAndKeepsPlayback == [][EqualizerStep /\ UnequalizedStep]_vars

\* Play, Pause, SetEqualizerBand(0, 6) have been applied: the track is still
\* paused and the event says disabled with a first gain of 6.
BandSetWhilePausedAndDisabled ==
  /\ Len(received) = 3
  /\ Last(received).kind = "SetEqualizerBand"
  /\ Last(received).arg = <<0, 6>>
  /\ Paused
  /\ Last(event_tx).type = "EqualizerUpdated"
  /\ ~Last(event_tx).arg[1]
  /\ Last(event_tx).arg[2][1] = 6

\* ------------------------------------------------------------------ C23
PositionOf(pb) == pb.val.player.current_position
\* A step taken with no track or a paused one.
FrozenStep ==
  /\ ~Playing =>
       \A i \in 1..Len(NewEvents) :
         NewEvents[i].type \notin {"Position", "VisualizationData"}
  /\ (~Playing /\ received' = received) =>
       /\ IsSome(playback') = IsSome(playback)
       /\ IsSome(playback) =>
            /\ playback'.val.player = playback.val.player
            /\ playback'.val.output.sample_buffer = playback.val.output.sample_buffer
            /\ playback'.val.is_paused
       /\ NewEvents = <<>>
  /\ (Paused /\ IsSome(playback') /\ playback'.val.is_paused) =>
       /\ PositionOf(playback') # PositionOf(playback) => Receives("Seek")
       /\ ~Receives("Seek") =>
            /\ playback'.val.player = playback.val.player
            /\ playback'.val.output.sample_buffer = playback.val.output.sample_buffer

\* C23: while there is no track or the track is paused, an iteration of the
\* loop decodes nothing, writes nothing to the output, leaves the position
\* where it is and sends no Position or VisualizationData event; while the
\* track stays paused only a Seek changes the position.
PositionFrozenUnlessPlaying == [][FrozenStep]_vars

\* A track was decoded for a while and then paused, and the loop has gone
\* through its feed half since the Pause.
IteratedWhilePaused ==
  /\ Paused
  /\ Last(received).kind = "Pause"
  /\ pc = "recv"
  /\ PositionOf(playback) > 0

\* ------------------------------------------------------------------ C24
\* One chunk is one packet of one frame.
ChunkFrames == 1
Distance(a, b) == IF a >= b THEN a - b ELSE b - a
\* The loop applies a Seek that succeeds.
SeekLandsStep ==
  (Receives("Seek") /\ IsSome(playback)
     /\ SeekOutcome(playback.val.player, Last(received').arg) # "fail") =>
    /\ Types(NewEvents) = <<"Playing">>
    /\ Distance(PositionOf(playback'), Last(received').arg) <= ChunkFrames
\* The decode that follows a successful seek in a valid track succeeds.
DecodeAfterSeekStep ==
  (pc = "feed" /\ Playing /\ received # <<>> /\ Last(received).kind = "Seek"
     /\ Last(event_tx).type = "Playing" /\ NeedsData(playback.val.output)
     /\ playback.val.player.path \in {"c", "r"}) =>
    IsOk(DecodeNext(playback.val.player, equalizer).res)

\* C24: after a seek to a target within the track has succeeded (a decoder
\* reset asked for by the reader counts as success) the next decode succeeds
\* and the position is within one chunk of the target.
SeekLandsNearTarget == [][SeekLandsStep /\ DecodeAfterSeekStep]_vars

\* ------------------------------------------------------------------ C25
\* C25: when there is no output device at all, the engine is not constructed
\* (AudioEngine::new fails) and no Error event reports the missing output.
NoDeviceFailsConstruction ==
  device = "none" =>
    /\ engine.phase # "running"
    /\ \A i \in 1..Len(event_tx) :
         ~(event_tx[i].type = "Error" /\ sent[event_tx[i].by].arg = "a")

\* ------------------------------------------------------------------ C26
OutputNewCalled == bench.op = "output_new" /\ IsSome(bench.res)
\* C26: CpalOutput::new gives the requested configuration when it builds,
\* else the device's default configuration when that builds, and an error
\* only when neither builds.
OutputNegotiation ==
  OutputNewCalled =>
    LET platform == PlatformTable[bench.platform]
        requested == OutputOf(bench.requested_sample_rate, bench.requested_channels)
        default == OutputOf(DeviceDefault.sample_rate, DeviceDefault.channels)
        res == bench.res.val
    IN /\ platform.builds_requested => res = Ok(requested)
       /\ (~platform.builds_requested /\ platform.builds_default) => res = Ok(default)
       /\ ~IsOk(res) => (~platform.builds_requested /\ ~platform.builds_default)

\* ------------------------------------------------------------------ C27
\* The loop, playing and short of data, calls decode_next.
DecodeStep ==
  (pc = "feed" /\ Playing /\ NeedsData(playback.val.output) /\ pc' = "recv") =>
    LET player == playback.val.player
        kind == NextPacket(player)
        d == DecodeNext(player, equalizer)
    IN /\ kind \in {"corrupt", "other_track", "reset_required"} =>
            /\ d.res = Ok(Some(<<>>))
            /\ kind = "reset_required" => d.player.resets = player.resets + 1
            /\ Playing'
            /\ PositionOf(playback') = PositionOf(playback)
            /\ playback'.val.output.sample_buffer = playback.val.output.sample_buffer
            /\ \A i \in 1..Len(NewEvents) : NewEvents[i].type \notin {"Error", "Finished"}
       /\ kind = "eof" => d.res = Ok(None)
       /\ kind \in {"read_err", "decode_err"} => ~IsOk(d.res) /\ Playing'
       /\ kind = "audio" =>
            /\ IsOk(d.res) /\ IsSome(d.res.val) /\ d.res.val.val # <<>>
            /\ PositionOf(playback') = PositionOf(playback) + ChunkFrames

\* C27: decode_next answers a corrupt packet, a packet of another track and
\* a reset request of the reader (after resetting the decoder) with an empty
\* chunk, the unexpected end of file with None, and any other failure with
\* an error; an empty chunk leaves the position and the output buffer as
\* they were and the track goes on playing.
DecodeOutcomesClassified == [][DecodeStep]_vars

\* The faulty track has played past its packet of another track and its
\* corrupt packet: one frame counted, one frame buffered.
SkippedBadPackets ==
  /\ Playing
  /\ playback.val.player.path = "b"
  /\ playback.val.player.epoch = 0
  /\ playback.val.player.reader_pos = 3
  /\ PositionOf(playback) = 1
  /\ BufferLen(playback.val.output) = 2

\* ------------------------------------------------------------------ C28
\* C28: the capture buffer keeps the length it was constructed with; after
\* update(samples, rate, channels) it holds the first min(n, size) samples of
\* the input at its start and zeros after them, whatever it held before, and
\* reports the rate and channel count just given.
CaptureHoldsLatestChunk ==
  (bench.op = "capture" /\ bench.called) =>
    LET size == Len(bench.before.samples)
        n == Len(bench.samples)
    IN /\ Len(bench.buffer.samples) = size
       /\ \A i \in 1..size :
            bench.buffer.samples[i] = IF i <= Min(n, size) THEN bench.samples[i] ELSE Zero
       /\ bench.buffer.sample_rate = bench.sample_rate
       /\ bench.buffer.channels = bench.channels

\* A buffer full of samples is updated with a shorter chunk at another rate:
\* the sample it held past the chunk is gone.
ShorterChunkOverwrote ==
  /\ bench.op = "capture"
  /\ bench.called
  /\ Len(bench.before.samples) = MaxCapture
  /\ bench.before.samples[MaxCapture] # Zero
  /\ Len(bench.samples) = 1
  /\ bench.buffer.samples[MaxCapture] = Zero
  /\ bench.buffer.sample_rate # bench.before.sample_rate

\* ------------------------------------------------------------------ C29
\* The events of a type that wait in the event channel.
Undelivered(type) ==
  Cardinality({i \in (engine.event_rx + 1)..Len(event_tx) : event_tx[i].type = type})

\* C29: however seldom the caller polls, the VisualizationData events do
\* not pile up in the event channel: the latest one waits, at most.
VisualizationNeverBacklogs == Undelivered("VisualizationData") <= 1

\* ------------------------------------------------------------------ C30
\* C30: once a seek has succeeded the decoder has been reset and the state
\* (x1, x2, y1, y2 of both channels) of every band of the equalizer is zero.
SeekResetsDecoderAndFilters ==
  (bench.op = "player" /\ bench.trail # <<>> /\ Last(bench.trail) = "seek") =>
    /\ bench.player.resets = bench.before.resets + 1
    /\ \A i \in 1..NumBands : StateOf(bench.eq.bands[i]) = ZeroState

\* ------------------------------------------------------------------ C31
\* C31: apply_equalizer gives back as many samples as it was given, for any
\* channel count, enabled or not; disabled, or with more than two channels,
\* it gives back the chunk itself.
ChunkKeepsItsLength ==
  (bench.op = "chunk" /\ IsSome(bench.res)) =>
    /\ Len(bench.res.val) = Len(bench.samples)
    /\ (~bench.eq.enabled \/ bench.channels > 2) => bench.res.val = bench.samples

\* ------------------------------------------------------------------ C32
PositionsIn(events) == SelectSeq(events, LAMBDA e : e.type = "Position")
\* A step of the loop with its clock.
PositionStep ==
  /\ PositionsIn(NewEvents) # <<>> =>
       /\ Playing
       /\ Len(PositionsIn(NewEvents)) = 1
       /\ PositionsIn(NewEvents)[1].arg =
            <<PositionOf(IF IsSome(playback') THEN playback' ELSE playback),
              UnwrapOr(current_track.val.duration_secs, 0)>>
  /\ \A i \in 2..Len(bench'.position_sent) :
       bench'.position_sent[i] - bench'.position_sent[i - 1] >= PositionUpdateInterval
  /\ Len(bench'.position_sent) = Len(PositionsIn(event_tx'))

\* C32: a Position event is sent only from an iteration with an unpaused
\* track, never less than 100 ms after the one before, and carries the
\* decoder's position and the track's duration, 0 when the header does not
\* give it.
PositionThrottled == [][PositionStep]_vars

\* Two Position events have been sent for the track of unknown length, the
\* second with a duration of 0.
TwoPositionsOfUnknownLength ==
  /\ bench.op = "clock"
  /\ Len(bench.position_sent) = 2
  /\ Last(PositionsIn(event_tx)).arg[2] = 0
  /\ IsSome(current_track)
  /\ current_track.val.path = "u"

\* ------------------------------------------------------------------ C33
PlaybackStateEvents ==
  SelectSeq(event_tx, LAMBDA e : e.type \in {"Playing", "Paused", "Stopped", "Finished",
                                            "RequestNext", "RequestPrevious"})
LastStateEventIs(type) ==
  PlaybackStateEvents # <<>> /\ Last(PlaybackStateEvents).type = type

\* C33: the latest of the events Playing, Paused, Stopped, Finished,
\* RequestNext, RequestPrevious is Playing exactly when a track is loaded and
\* unpaused, and Paused exactly when a track is loaded and paused.
StateEventsMatchController ==
  /\ LastStateEventIs("Playing") <=> Playing
  /\ LastStateEventIs("Paused") <=> Paused

\* ------------------------------------------------------------------ C34
\* The loop, playing and short of data, calls decode_next and gets an error.
DecodeFailureStep ==
  (pc = "feed" /\ pc' = "recv" /\ Playing /\ NeedsData(playback.val.output)
     /\ ~IsOk(DecodeNext(playback.val.player, equalizer).res)) =>
    /\ Playing'
    /\ \A i \in 1..Len(NewEvents) : NewEvents[i].type \notin {"Error", "Finished"}
    /\ playback'.val.player = DecodeNext(playback.val.player, equalizer).player
    /\ playback'.val.output = playback.val.output
    /\ current_track' = current_track
    /\ NeedsData(playback'.val.output)

\* C34: when decode_next returns an error while a track plays, the loop
\* sends neither Error nor Finished, keeps the decoder, the output and the
\* track, stays playing, and the output still asks for data, so the next
\* iteration decodes again.
DecodeFailureKeepsPlaying == [][DecodeFailureStep]_vars

\* The faulty track has been played through the packet its decoder fails
\* on, with no Error event sent.
PlayedThroughDecodeFailure ==
  /\ Playing
  /\ pc = "recv"
  /\ playback.val.player.path = "b"
  /\ playback.val.player.reader_pos = 5
  /\ Count(event_tx, "Error") = 0
  /\ Count(event_tx, "Finished") = 0

\* ------------------------------------------------------------------ C35
\* The samples written to the output of the loaded track that no callback
\* has popped.
WrittenUndelivered == playback.val.output.sample_buffer

\* C35: when the loop sends Finished and drops the output, every sample
\* written to that output has been delivered to the hardware callback: none
\* is left in the output's buffer.
FinishedAfterAllDelivered ==
  [][(pc = "feed" /\ IsSome(playback)
        /\ \E i \in 1..Len(NewEvents) : NewEvents[i].type = "Finished")
       => WrittenUndelivered = <<>>]_vars

\* ------------------------------------------------------------------ C36
\* The request a skipping command sends.
RequestOf(kind) == IF kind = "Next" THEN "RequestNext" ELSE "RequestPrevious"
SkipStep ==
  /\ \A kind \in {"Next", "Previous"} :
       Receives(kind) =>
         /\ playback' = None
         /\ current_track' = None
         /\ Types(NewEvents) = <<RequestOf(kind)>>
  /\ (~IsSome(playback) /\ IsSome(playback')) => Receives("Play")
\* An event of a track that follows a request is about a track loaded by a
\* Play received after the skipping command.
NoTrackAfterRequest ==
  \A i, j \in 1..Len(event_tx) :
    (/\ i < j
     /\ event_tx[i].type \in {"RequestNext", "RequestPrevious"}
     /\ event_tx[j].type \in {"TrackLoaded", "Playing", "Paused", "Position",
                              "VisualizationData", "Finished"})
      => event_tx[j].load > event_tx[i].by

\* C36: Next and Previous, in any state, drop the playback state and the
\* current track, leave the loop Idle and send exactly one RequestNext or
\* RequestPrevious; the loop loads no track until it receives a later Play,
\* and every later event of a track is of a track loaded by such a Play.
SkipDropsPlaybackAndRequests == [][SkipStep /\ NoTrackAfterRequest']_vars

\* A paused or playing track was skipped, the loop ran its decode/report half
\* idle, and a later Play has loaded a track that now plays.
SkippedThenPlayed ==
  /\ Playing
  /\ \E i \in 1..Len(event_tx) :
       /\ event_tx[i].type \in {"RequestNext", "RequestPrevious"}
       /\ event_tx[i].load >= 1
       /\ playback.val.player.load > event_tx[i].by
  /\ Count(event_tx, "Position") >= 2

\* ------------------------------------------------------------------ C37
\* C37: while a track is loaded, the sample rate and the channel count of
\* its output equal those of its decoder, also when the output was built
\* with the device's default configuration.
OutputMatchesDecoder ==
  IsSome(playback) =>
    /\ playback.val.output.sample_rate = playback.val.player.sample_rate
    /\ playback.val.output.channels = playback.val.player.channels

\* ------------------------------------------------------------------ C38
\* The mutexes a thread holds, and the mutex it waits for.
HeldBy(thread) == {m \in Mutexes : bench.locks[m] = thread}
Wanted(thread) ==
  IF thread = "control"
    THEN (IF bench.control.at = "lock" THEN {SinkMutex(bench.control.call)} ELSE {})
    ELSE (CASE bench.callback.at = "lock_buffer" -> {"cb_sample_buffer"}
            [] bench.callback.at = "lock_flag" -> {"cb_is_playing"}
            [] OTHER -> {})
\* A thread is blocked when the mutex it waits for is held.
Blocked(thread) == \E m \in Wanted(thread) : bench.locks[m] # "none"
\* The control thread holds at most one mutex, and none between calls; the
\* callback holds its flag's mutex only inside its buffer's, and none
\* between invocations; a blocked thread waits for a mutex that the other
\* thread holds, and that thread is not blocked.
LockDiscipline ==
  /\ Cardinality(HeldBy("control")) <= 1
  /\ bench.control.at # "locked" => HeldBy("control") = {}
  /\ "cb_is_playing" \in HeldBy("callback") => "cb_sample_buffer" \in HeldBy("callback")
  /\ bench.callback.at \in {"idle", "lock_buffer"} => HeldBy("callback") = {}
  /\ \A t \in {"control", "callback"} :
       Blocked(t) =>
         \A m \in Wanted(t) :
           /\ bench.locks[m] # t
           /\ ~Blocked(bench.locks[m])

\* C38: the control thread and the callback never deadlock on the output's
\* locks: the callback takes the buffer's lock and then the flag's,
\* write_samples, clear, buffer_len, pause and play hold one lock at a time,
\* no thread waits for a lock whose holder is blocked, and every call of the
\* control thread and every invocation of the callback returns.
SinkLocksNeverDeadlock ==
  /\ []LockDiscipline
  /\ (bench.control.at # "idle") ~> (bench.control.at = "idle")
  /\ (bench.callback.at # "idle") ~> (bench.callback.at = "idle")

\* The callback holds both of its locks while the control thread holds the
\* output's flag lock in pause(), with samples written.
BothThreadsUnderLocks ==
  /\ HeldBy("callback") = {"cb_sample_buffer", "cb_is_playing"}
  /\ HeldBy("control") = {"is_playing"}
  /\ bench.control.call = "pause"
  /\ BufferLen(bench.output) >= 1

\* ------------------------------------------------------------------ C39
\* A call has just been made on the equalizer.
Called(call) == bench'.calls = bench.calls + 1 /\ bench'.call = call
GainsStep ==
  /\ Called("set_band_gain") =>
       LET band_index == bench'.arg[1] IN
       IF band_index >= NumBands
         THEN bench'.eq = bench.eq
         ELSE /\ bench'.eq.gains[band_index + 1] = Clamp(bench'.arg[2])
              /\ \A i \in 1..NumBands :
                   i # band_index + 1 =>
                     /\ bench'.eq.gains[i] = bench.eq.gains[i]
                     /\ bench'.eq.bands[i] = bench.eq.bands[i]
  /\ Called("set_all_gains") =>
       \A i \in 1..NumBands :
         IF i <= Len(bench'.arg)
           THEN bench'.eq.gains[i] = Clamp(bench'.arg[i])
           ELSE /\ bench'.eq.gains[i] = bench.eq.gains[i]
                /\ bench'.eq.bands[i] = bench.eq.bands[i]
  /\ Len(bench'.eq.gains) = NumBands
  /\ Len(bench'.eq.bands) = NumBands

\* C39: the equalizer always holds ten gains: set_band_gain with an index of
\* ten or more changes no gain and no coefficient, and with a smaller index
\* it sets that band's gain only; set_all_gains with fewer than ten values
\* sets the leading bands and leaves the gains and coefficients of the rest
\* as they were, and with more than ten values it sets the ten bands from
\* the first ten.
GainsStayTen == [][GainsStep]_vars

\* The last band's gain was set, then two leading gains by a short
\* set_all_gains, then set_band_gain was called with index ten.
SetBeyondTheBands ==
  /\ bench.call = "set_band_gain"
  /\ bench.arg[1] = NumBands
  /\ bench.trail = <<"set_band_gain", "set_all_gains", "set_band_gain">>
  /\ bench.eq.gains[1] = 3
  /\ bench.eq.gains[2] = -GainLimit
  /\ bench.eq.gains[NumBands] = -GainLimit

====
